---- MODULE Spec2Model ----
(***************************************************************************)
(* A model of obsidian-gemini-transcriber:                                 *)
(*   - the call envelope of src/api/retry.py (timeout, error               *)
(*     classification, retry with exponential backoff): SpecRetry, and     *)
(*     SpecRetryLong for longer runs of a func with fewer outcomes;        *)
(*   - the processed-files ledger of src/obsidian/database.py: SpecLedger  *)
(*     (every save succeeds), SpecLedgerFaults (a save may fail) and       *)
(*     SpecLedgerLoad (the ledger is loaded from any stored document).     *)
(*   - the grouping of speech intervals into segments of                   *)
(*     src/audio/vad.py: SpecGroup;                                        *)
(*   - the segmented transcription of src/transcription/service.py with    *)
(*     the segment files of src/audio/vad.py: SpecSegments;                *)
(*   - process_audio_file of src/obsidian/handler.py, which works on the   *)
(*     ledger: SpecHandler;                                                *)
(*   - the ledger operations called from two threads without any lock:     *)
(*     SpecLedgerThreads;                                                  *)
(*   - transcribe_file of src/transcription/service.py, which probes the   *)
(*     duration and takes the direct or the segmented path:                *)
(*     SpecTranscribe;                                                     *)
(*   - scan_existing_files of src/obsidian/watcher.py with                 *)
(*     process_audio_file as its callback: SpecScan.                       *)
(* The parts share no state unless said otherwise; each specification      *)
(* leaves the variables of the parts it does not exercise at their         *)
(* initial values.                                                         *)
(***************************************************************************)
EXTENDS Integers, Sequences, FiniteSets, TLC

VARIABLES
    \* ---- retry_with_backoff (src/api/retry.py)
    func,          \* the func argument: what an invocation of it can do
    max_retries,   \* the max_retries argument
    has_on_retry,  \* whether an on_retry callback was passed
    attempt,       \* the loop variable of "for attempt in range(max_retries)"
    hist,          \* outcome of every invocation of func so far, in order
    waits,         \* the arguments of time.sleep so far, in order
    observed,      \* the (attempt_number, error) pairs passed to on_retry
    last_error,    \* the local last_error
    workers,       \* attempts whose worker thread is still alive
    late,          \* what the abandoned worker that ended last left in the
                   \* cells of its call; NoResult while none has ended
    r_pc,          \* "loop" while inside the for loop, "done" once it has left
    r_result,      \* what retry_with_backoff returned or raised
    \* ---- ProcessedFilesDatabase (src/obsidian/database.py)
    files,         \* self.data["files"]: path -> entry (NoEntry when absent)
    order,         \* the keys of self.data["files"] in insertion order
    stats,         \* self.data["statistics"]
    version,       \* self.data["version"], NoVersion when the key is absent
    keys,          \* which of "files" and "statistics" self.data has
    disk,          \* the content of the file at db_path
    fs,            \* the audio files: path -> content, NoFile when none
    op_budget,     \* ledger operations the run may call
    fault_budget,  \* saves the run lets fail
    nops,          \* number of ledger operations called so far
    nfail,         \* number of saves that have failed so far
    last,          \* the ledger operation called last
    \* ---- VADProcessor._group_segments (src/audio/vad.py)
    timestamps,    \* the timestamps argument: the speech intervals
    max_duration,  \* the max_duration argument
    segments,      \* what _group_segments returned
    regrouped,     \* what it returned when given its own result again
    g_pc,          \* "input", "grouped", "regrouped"; "idle" when unused
    \* ---- TranscriptionService._transcribe_with_vad
    \*      (src/transcription/service.py, src/audio/vad.py)
    groups,        \* how many (start, end) groups the detector step gave;
                   \* 0 when no speech was detected
    on_disk,       \* the files that exist: the audio file, segment files
    temp_files,    \* the list _create_audio_segments is building
    seg_paths,     \* the segment_path of each element of `segments`
    seg_i,         \* how many segments the loop has gone through
    calls,         \* the calls of client.transcribe_audio: path and outcome
    transcriptions,      \* the list `transcriptions`
    full_transcription,  \* what _transcribe_with_vad returned
    s_pc,          \* "split", "loop", "returned", "raised"; "idle" when unused
    \* ---- ObsidianTranscriptionHandler (src/obsidian/handler.py); it works
    \*      on the ledger variables above
    create_summary,  \* self.create_summary
    vault,         \* the notes save_note has written: path and kind
    h_runs,        \* number of calls of process_audio_file so far
    h_last,        \* the call of process_audio_file made last
    \* ---- ledger operations called from two threads on one
    \*      ProcessedFilesDatabase (the ledger variables above)
    threads,       \* per thread: the call it makes and how far it has got
    ledger0,       \* the ledger when the two calls began
    \* ---- the process that called retry_with_backoff from its main thread
    exited,        \* whether the interpreter has shut down
    \* ---- TranscriptionService.transcribe_file
    \*      (src/transcription/service.py); its segmented path is the part
    \*      above
    use_vad,       \* the use_vad argument
    duration,      \* what get_audio_duration returns for the file
    vad_threshold, \* the vad_threshold_seconds argument
    route,         \* "none", then "direct", "segmented" or "failed"
    tf_result,     \* what the direct path or the probe let transcribe_file
                   \* return or raise; NoResult until then
    \* ---- VaultWatcher.scan_existing_files (src/obsidian/watcher.py); the
    \*      callback is process_audio_file
    audio_files,   \* the list audio_files
    scan_i,        \* how many elements the for loop has gone through
    attempted,     \* the paths the callback was called with, in order
    scan_pc        \* "collect", "loop", "done"; "idle" when unused

r_vars == <<func, max_retries, has_on_retry, attempt, hist, waits, observed,
            last_error, workers, late, r_pc, r_result>>

l_vars == <<files, order, stats, version, keys, disk, fs, op_budget,
           fault_budget, nops, nfail, last>>

g_vars == <<timestamps, max_duration, segments, regrouped, g_pc>>

\* The variables of the parts other than the call envelope and the ledger.
s_vars == <<groups, on_disk, temp_files, seg_paths, seg_i, calls,
            transcriptions, full_transcription, s_pc>>

h_vars == <<create_summary, vault, h_runs, h_last>>

t_vars == <<threads, ledger0>>

e_vars == <<exited>>

p_vars == <<use_vad, duration, vad_threshold, route, tf_result>>

c_vars == <<audio_files, scan_i, attempted, scan_pc>>

x_vars == <<g_vars, s_vars, h_vars, t_vars, e_vars, p_vars, c_vars>>

\* What the actions of one of these parts leave unchanged.
g_rest == <<r_vars, l_vars, s_vars, h_vars, t_vars, e_vars, p_vars, c_vars>>
s_rest == <<r_vars, l_vars, g_vars, h_vars, t_vars, e_vars, p_vars, c_vars>>
h_rest == <<r_vars, g_vars, s_vars, t_vars, e_vars, p_vars, c_vars>>
t_rest == <<r_vars, g_vars, s_vars, h_vars, e_vars, p_vars, c_vars>>
e_rest == <<r_vars, l_vars, g_vars, s_vars, h_vars, t_vars, p_vars, c_vars>>
p_rest == <<r_vars, l_vars, g_vars, h_vars, t_vars, e_vars, c_vars>>
c_rest == <<r_vars, g_vars, s_vars, t_vars, e_vars, p_vars>>

vars == <<r_vars, l_vars, x_vars>>

Min(a, b) == IF a <= b THEN a ELSE b
Max(a, b) == IF a >= b THEN a ELSE b

\* Python's None where an exception is expected: str(None) is "None".
NoError == [cls |-> "NoneType", msg |-> <<"None">>]

(***************************************************************************)
(* Bounds of the model.                                                    *)
(***************************************************************************)
MaxRetryBudget == 4    \* max_retries ranges over 0..MaxRetryBudget
MaxLongRetryBudget == 7  \* the same, in the runs of SpecRetryLong
MaxLedgerOps == 3      \* ledger operations in a run whose saves all succeed
MaxFaultyRunOps == 2   \* ledger operations in a run in which saves may fail
MaxSaveFailures == 1   \* saves that fail in such a run
MaxLoadRunOps == 1     \* ledger operations in a run that starts from any store
MaxIntervals == 4      \* speech intervals given to _group_segments
MaxTime == 8           \* the interval bounds range over 0..MaxTime
MaxDuration == 4       \* max_duration ranges over 1..MaxDuration
MaxGroups == 3         \* segments of a segmented transcription
MaxHandlerRuns == 3    \* calls of process_audio_file in a run
MaxProbe == 3          \* durations range over 0..MaxProbe, thresholds from 1

(***************************************************************************)
(* Program constants (src/constants.py).                                   *)
(***************************************************************************)
RETRY_BACKOFF_BASE == 10
MAX_RETRY_WAIT == 120

\* A message is the sequence of the words of str(error); a keyword is a
\* sequence of lower-case words.  "keyword in error_msg" is containment as a
\* contiguous run of words.
RETRYABLE_ERROR_KEYWORDS ==
    { <<"server">>, <<"service">>, <<"unavailable">>, <<"503">>, <<"500">>,
      <<"429">>, <<"rate", "limit">>, <<"quota">>, <<"empty", "response">>,
      <<"no", "text", "content">> }

\* str.lower(), word by word, on the words the model's messages use.
LowerWord(w) ==
    CASE w = "Server" -> "server"
      [] w = "Rate"   -> "rate"
      [] w = "Limit"  -> "limit"
      [] w = "API"    -> "api"
      [] OTHER        -> w

Lower(msg) == [i \in 1..Len(msg) |-> LowerWord(msg[i])]

Contains(msg, kw) ==
    \E i \in 0..(Len(msg) - Len(kw)) :
        \A j \in 1..Len(kw) : msg[i + j] = kw[j]

\* The exceptions func raises in the model: class and message.
FuncErrors ==
    { [cls |-> "RetryableError", msg |-> <<"please", "retry">>],
      [cls |-> "Exception",      msg |-> <<"503", "Server", "error">>],
      [cls |-> "Exception",      msg |-> <<"Rate", "Limit", "exceeded">>],
      [cls |-> "Exception",      msg |-> <<"limit", "rate", "exceeded">>],
      [cls |-> "Exception",      msg |-> <<"invalid", "API", "key">>],
      [cls |-> "TimeoutError",   msg |-> <<"read", "timed", "out">>] }

\* The values func returns in the model.
FuncValues == {"text1", "text2"}

\* The TimeoutError execute_with_timeout raises itself.
EnvelopeTimeout ==
    [cls |-> "TimeoutError",
     msg |-> <<"Function", "execution", "timed", "out">>]

\* What an on_retry callback raises when it raises.
ObserverError == [cls |-> "Exception", msg |-> <<"callback", "failed">>]

IsRetryableError_AlwaysTrue(error) == TRUE

\* is_retryable_error
IsRetryableError(error) ==
    IF error.cls = "RetryableError"
    THEN TRUE
    ELSE \E kw \in RETRYABLE_ERROR_KEYWORDS : Contains(Lower(error.msg), kw)

Pow2(n) == IF n <= 0 THEN 1 ELSE 2 ^ n

BackoffWait_NoCap(a) == RETRY_BACKOFF_BASE * Pow2(a - 1)

\* wait_time of the iteration with loop variable a (a > 0)
BackoffWait(a) == Min(RETRY_BACKOFF_BASE * Pow2(a - 1), MAX_RETRY_WAIT)

\* range(max_retries): the loop body runs for attempt = 0 .. max_retries - 1
LoopContinues(a) == a < max_retries

NotifyArg_ZeroBased(a) == a

\* the attempt number handed to on_retry
NotifyArg(a) == a + 1

\* "if on_retry and attempt < max_retries - 1"
ShouldNotify_EveryFailure(a) == has_on_retry

ShouldNotify(a) == has_on_retry /\ a < max_retries - 1

NumStr(n) == <<"0", "1", "2", "3", "4", "5", "6", "7", "8", "9">>[n + 1]

\* str(last_error)
StrOf(e) == e.msg

\* Exception(f"Maximum retries ({max_retries}) reached. Last error: {last_error}")
ExhaustedError(n, e) ==
    [cls |-> "Exception",
     msg |-> <<"Maximum", "retries", NumStr(n), "reached", "Last", "error">>
             \o StrOf(e)]

NoResult == [kind |-> "none"]
Returned(v) == [kind |-> "returned", value |-> v]
Raised(e) == [kind |-> "raised", error |-> e]

\* A func is given by the values it may return and the exceptions it may
\* raise.  AnyFunc may do all of it; FlakyFunc is a func that returns one
\* value, fails with one transient error, or hangs.
AnyFunc == [values |-> FuncValues, errors |-> FuncErrors]
FlakyFunc ==
    [values |-> {"text1"},
     errors |-> {[cls |-> "Exception", msg |-> <<"503", "Server", "error">>]}]

\* The ways an invocation of f ends.
FuncOutcomes(f) ==
    {Returned(v) : v \in f.values} \cup {Raised(e) : e \in f.errors}

Delivered_SharedCells(o) == IF late = NoResult THEN o ELSE late

\* execute_with_timeout when the thread has ended in time with outcome o:
\* it raises exception[0] or returns result[0], the cells that this call
\* created and that only its own thread writes.
Delivered(o) == o

\* The sleep at the top of an iteration: none for attempt 0.
SleepBefore(a) == IF a > 0 THEN Append(waits, BackoffWait(a)) ELSE waits

\* ---- values of the ledger that the initial states name
\* The audio files of the model, and what a file can hold.
Paths == {"a.m4a", "b.mp3"}
Contents == {"audio1", "audio2"}
NoFile == "ENOENT"
NoPath == "-"

\* hashlib.md5(content).hexdigest(), on the contents of the model
MD5(c) == IF c = "audio1" THEN "c4ca4238" ELSE "c81e728d"

NoEntry == [status |-> "absent"]

NoStore == [state |-> "missing"]

SCHEMA_VERSION == "1.0.0"
NoVersion == "-"
AllKeys == {"files", "statistics"}

\* _initialize_schema: the statistics of a new ledger
InitialStatistics ==
    [total_processed |-> 0, total_failed |-> 0,
     total_size_bytes |-> 0, total_duration_seconds |-> 0]

NoCall ==
    [op |-> "none", path |-> NoPath, raised |-> FALSE, count |-> 0,
     pre_stats |-> InitialStatistics]

\* The part that a specification does not exercise stays as constructed.
LedgerIdle ==
    /\ files = [p \in Paths |-> NoEntry]
    /\ order = <<>>
    /\ stats = InitialStatistics
    /\ version = SCHEMA_VERSION
    /\ keys = AllKeys
    /\ disk = NoStore
    /\ fs = [p \in Paths |-> NoFile]
    /\ op_budget = 0
    /\ fault_budget = 0
    /\ nops = 0
    /\ nfail = 0
    /\ last = NoCall

RetryIdle ==
    /\ func = AnyFunc
    /\ max_retries = 0
    /\ has_on_retry = FALSE
    /\ attempt = 0
    /\ hist = <<>>
    /\ waits = <<>>
    /\ observed = <<>>
    /\ last_error = NoError
    /\ workers = {}
    /\ late = NoResult
    /\ r_pc = "loop"
    /\ r_result = NoResult

GroupIdle ==
    /\ timestamps = <<>>
    /\ max_duration = 0
    /\ segments = <<>>
    /\ regrouped = <<>>
    /\ g_pc = "idle"

\* The files of a run: the audio file being transcribed and the temporary
\* file of segment i (i counted from 1).
AudioFile == [kind |-> "audio", i |-> 0]
SegmentFile(i) == [kind |-> "segment", i |-> i]

NoText == <<"-">>

ServiceIdle ==
    /\ groups = 0
    /\ on_disk = {AudioFile}
    /\ temp_files = <<>>
    /\ seg_paths = <<>>
    /\ seg_i = 0
    /\ calls = <<>>
    /\ transcriptions = <<>>
    /\ full_transcription = NoText
    /\ s_pc = "idle"

\* No call of process_audio_file yet.
NoRun ==
    [path |-> NoPath, response |-> <<"-">>, result |-> FALSE, remote |-> 0,
     wrote |-> {}, error |-> "None"]

HandlerIdle ==
    /\ create_summary = FALSE
    /\ vault = {}
    /\ h_runs = 0
    /\ h_last = NoRun

\* The two threads that call the ledger, and the path each works on.
Threads == {1, 2}
PathOf(t) == IF t = 1 THEN "a.m4a" ELSE "b.mp3"

NoThread ==
    [op |-> "none", path |-> NoPath, meta |-> <<0, 0>>, pc |-> "done",
     todo |-> <<>>, tmp |-> 0, entry |-> NoEntry]

NoLedger == [files |-> [p \in Paths |-> NoEntry], order |-> <<>>,
             stats |-> InitialStatistics, disk |-> NoStore]

ThreadsIdle ==
    /\ threads = [t \in Threads |-> NoThread]
    /\ ledger0 = NoLedger

\* The process runs.
ProcessIdle == exited = FALSE

\* transcribe_file is not called.
TranscribeIdle ==
    /\ use_vad = TRUE
    /\ duration = 0
    /\ vad_threshold = 0
    /\ route = "none"
    /\ tf_result = NoResult

\* scan_existing_files is not called.
ScanIdle ==
    /\ audio_files = <<>>
    /\ scan_i = 0
    /\ attempted = <<>>
    /\ scan_pc = "idle"

LaterPartsIdle == ProcessIdle /\ TranscribeIdle /\ ScanIdle

OtherPartsIdle ==
    /\ GroupIdle
    /\ ServiceIdle
    /\ HandlerIdle
    /\ ThreadsIdle
    /\ LaterPartsIdle

RetryInit ==
    /\ func = AnyFunc
    /\ max_retries \in 0..MaxRetryBudget
    /\ has_on_retry \in BOOLEAN
    /\ attempt = 0
    /\ hist = <<>>
    /\ waits = <<>>
    /\ observed = <<>>
    /\ last_error = NoError
    /\ workers = {}
    /\ late = NoResult
    /\ r_pc = "loop"
    /\ r_result = NoResult
    /\ LedgerIdle
    /\ OtherPartsIdle

\* The except-branch of a retryable failure e in iteration `attempt`:
\* last_error = e; on_retry(attempt + 1, e) when due; continue.
\* on_retry either returns or raises; what it raises leaves the function.
HandleRetryable(e) ==
    /\ last_error' = e
    /\ IF ShouldNotify(attempt)
       THEN /\ observed' = Append(observed, <<NotifyArg(attempt), e>>)
            /\ \/ /\ attempt' = attempt + 1
                  /\ UNCHANGED <<r_pc, r_result>>
               \/ /\ r_pc' = "done"
                  /\ r_result' = Raised(ObserverError)
                  /\ UNCHANGED attempt
       ELSE /\ attempt' = attempt + 1
            /\ UNCHANGED <<observed, r_pc, r_result>>

\* What the loop does with the outcome d that execute_with_timeout
\* delivers: return the value; retry a TimeoutError or a retryable error;
\* raise any other error.
Conclude(d) ==
    IF d.kind = "returned"
    THEN /\ r_result' = d
         /\ r_pc' = "done"
         /\ UNCHANGED <<attempt, observed, last_error>>
    ELSE IF d.error.cls = "TimeoutError" \/ IsRetryableError(d.error)
    THEN HandleRetryable(d.error)
    ELSE /\ last_error' = d.error
         /\ r_result' = d
         /\ r_pc' = "done"
         /\ UNCHANGED <<attempt, observed>>

\* An iteration in which func returns v before the timeout.
AttemptReturns ==
    /\ r_pc = "loop" /\ LoopContinues(attempt)
    /\ \E v \in func.values :
        /\ waits' = SleepBefore(attempt)
        /\ hist' = Append(hist, Returned(v))
        /\ Conclude(Delivered(Returned(v)))
    /\ UNCHANGED <<func, max_retries, has_on_retry, workers, late, l_vars,
                   x_vars>>

\* An iteration in which the worker is still alive when join(timeout) returns.
AttemptTimesOut ==
    /\ r_pc = "loop" /\ LoopContinues(attempt)
    /\ waits' = SleepBefore(attempt)
    /\ hist' = Append(hist, [kind |-> "timeout"])
    /\ workers' = workers \cup {attempt}
    /\ HandleRetryable(EnvelopeTimeout)
    /\ UNCHANGED <<func, max_retries, has_on_retry, late, l_vars, x_vars>>

\* An iteration in which func raises e before the timeout.
AttemptRaises ==
    /\ r_pc = "loop" /\ LoopContinues(attempt)
    /\ \E e \in func.errors :
        /\ waits' = SleepBefore(attempt)
        /\ hist' = Append(hist, Raised(e))
        /\ Conclude(Delivered(Raised(e)))
    /\ UNCHANGED <<func, max_retries, has_on_retry, workers, late, l_vars,
                   x_vars>>

\* The loop has run out: raise Exception(error_msg).
Exhausted ==
    /\ r_pc = "loop" /\ ~LoopContinues(attempt)
    /\ r_result' = Raised(ExhaustedError(max_retries, last_error))
    /\ r_pc' = "done"
    /\ UNCHANGED <<func, max_retries, has_on_retry, attempt, hist, waits,
                   observed, last_error, workers, late, l_vars, x_vars>>

\* A worker thread abandoned by a timed-out attempt ends, at any time, even
\* after retry_with_backoff has left: func returns or raises in it, and
\* run_func stores the outcome in the cells of that attempt's call.
WorkerEnds ==
    /\ \E w \in workers, o \in FuncOutcomes(func) :
        /\ workers' = workers \ {w}
        /\ late' = o
    /\ UNCHANGED <<func, max_retries, has_on_retry, attempt, hist, waits,
                   observed, last_error, r_pc, r_result, l_vars, x_vars>>

\* Whether the worker thread of an attempt is a daemon thread:
\* threading.Thread(target=run_func) passes no daemon flag, so the thread
\* takes the flag of the thread that creates it, here the main thread.
WorkerIsDaemon == FALSE

\* The process ends after retry_with_backoff has left (sys.exit, or the end
\* of the main thread): the interpreter first joins every thread that is
\* not a daemon, so it ends only when no such worker is running.
ProcessExits ==
    /\ r_pc = "done"
    /\ ~exited
    /\ workers = {} \/ WorkerIsDaemon
    /\ exited' = TRUE
    /\ UNCHANGED e_rest

RetryNext ==
    \/ AttemptReturns
    \/ AttemptTimesOut
    \/ AttemptRaises
    \/ Exhausted
    \/ WorkerEnds
    \/ ProcessExits

(***************************************************************************)
(* The processed-files ledger (src/obsidian/database.py).                  *)
(*                                                                         *)
(* An entry keeps the fields the code reads back: hash, status, the two    *)
(* metadata values and error.  The timestamps and the output paths are     *)
(* written and never read by the ledger, and are left out.  A metadata     *)
(* value of 0 stands for None or 0: the code tests these values only for   *)
(* truth ("if duration_seconds:").                                         *)
(***************************************************************************)
\* The duration/size pairs a caller passes: both unknown, or both known.
MetaInputs == { <<0, 0>>, <<2, 3>> }
ErrorTexts == {"network down"}

\* What save() can do: write the document; fail before the file is opened
\* (mkdir or open raises); fail after open(db_path, "w") has truncated it.
SaveOutcomes == {"ok", "fail_before_open", "fail_in_write"}

TruncatedStore == [state |-> "truncated"]

\* A JSON object at db_path: its "version" (NoVersion when it has none),
\* which of "files" and "statistics" it has, and their content (the files in
\* key order).  A key that is absent is modelled with the empty value.
StoredDocument(v, k, f, o, s) ==
    [state |-> "valid", version |-> v, keys |-> k,
     files |-> f, order |-> o, stats |-> s]

\* json.dump(self.data): the document save() writes
Document(f, o, s) == StoredDocument(version, keys, f, o, s)

\* A save ends as sv: a failing save is one more failure of the run.
SaveEnds(sv) ==
    IF sv = "ok"
    THEN nfail' = nfail
    ELSE nfail < fault_budget /\ nfail' = nfail + 1

\* save(): the content of db_path afterwards
Saved(outcome, f, o, s) ==
    CASE outcome = "ok"               -> Document(f, o, s)
      [] outcome = "fail_before_open" -> disk
      [] outcome = "fail_in_write"    -> TruncatedStore

\* get_file_hash: raises when the file cannot be opened
GetFileHash(p) ==
    IF fs[p] = NoFile
    THEN [raised |-> TRUE, hash |-> "None"]
    ELSE [raised |-> FALSE, hash |-> MD5(fs[p])]

IsProcessed_AnyStatus(p) ==
    IF files[p] = NoEntry
    THEN [raised |-> FALSE, value |-> FALSE]
    ELSE LET h == GetFileHash(p)
         IN IF h.raised
            THEN [raised |-> FALSE, value |-> FALSE]
            ELSE [raised |-> FALSE, value |-> h.hash = files[p].hash]

\* is_processed
IsProcessed(p) ==
    IF files[p] = NoEntry
    THEN [raised |-> FALSE, value |-> FALSE]
    ELSE IF files[p].status # "completed"
    THEN [raised |-> FALSE, value |-> FALSE]
    ELSE LET h == GetFileHash(p)
         IN IF h.raised
            THEN [raised |-> FALSE, value |-> FALSE]
            ELSE [raised |-> FALSE, value |-> h.hash = files[p].hash]

\* dict assignment: a new key goes to the end, an old key keeps its place
KeyOrderAfterSet(o, p) ==
    IF \E i \in 1..Len(o) : o[i] = p THEN o ELSE Append(o, p)

\* del files[p]
KeyOrderAfterDel(o, p) == SelectSeq(o, LAMBDA q : q # p)

CompletedEntry_NoHash(h, dur, size) ==
    [hash |-> "None", status |-> "completed", duration_seconds |-> dur,
     file_size_bytes |-> size, error |-> "None"]

\* the entry add_processed_file writes
CompletedEntry(h, dur, size) ==
    [hash |-> h, status |-> "completed", duration_seconds |-> dur,
     file_size_bytes |-> size, error |-> "None"]

\* the entry add_failed_file writes (its metadata has no duration)
FailedEntry(h, err, size) ==
    [hash |-> h, status |-> "failed", duration_seconds |-> 0,
     file_size_bytes |-> size, error |-> err]

\* add_processed_file: the statistics after the update
StatsAfterProcessed(old, dur, size) ==
    LET was_failed == old.status = "failed"
        s1 == IF was_failed
              THEN [stats EXCEPT !.total_failed = Max(0, @ - 1)]
              ELSE stats
        s2 == IF ~was_failed
              THEN [s1 EXCEPT !.total_processed = @ + 1]
              ELSE s1
        s3 == IF dur # 0
              THEN [s2 EXCEPT !.total_duration_seconds = @ + dur]
              ELSE s2
    IN  IF size # 0 THEN [s3 EXCEPT !.total_size_bytes = @ + size] ELSE s3

\* add_failed_file: the statistics after the update
StatsAfterFailed(old) ==
    LET was_processed == old.status = "completed"
        s1 == IF was_processed
              THEN [stats EXCEPT !.total_processed = Max(0, @ - 1)]
              ELSE stats
    IN  IF ~was_processed THEN [s1 EXCEPT !.total_failed = @ + 1] ELSE s1

\* remove_processed_file: the statistics after removing entry e from st
StatsAfterRemove_Unclamped(st, e) ==
    IF e.status = "completed"
    THEN [st EXCEPT !.total_processed = @ - 1,
                    !.total_duration_seconds = @ - e.duration_seconds,
                    !.total_size_bytes = @ - e.file_size_bytes]
    ELSE IF e.status = "failed"
    THEN [st EXCEPT !.total_failed = @ - 1]
    ELSE st

StatsAfterRemove(st, e) ==
    IF e.status = "completed"
    THEN LET s1 == [st EXCEPT !.total_processed = Max(0, @ - 1)]
             s2 == IF e.duration_seconds # 0
                   THEN [s1 EXCEPT !.total_duration_seconds =
                                       Max(0, @ - e.duration_seconds)]
                   ELSE s1
         IN  IF e.file_size_bytes # 0
             THEN [s2 EXCEPT !.total_size_bytes =
                                 Max(0, @ - e.file_size_bytes)]
             ELSE s2
    ELSE IF e.status = "failed"
    THEN [st EXCEPT !.total_failed = Max(0, @ - 1)]
    ELSE st

\* The record of a call: the operation, its path (0 when it takes none),
\* whether it raised, the count it returned (cleanup), and the statistics
\* when it was called.
Call(op, p, raised, count) ==
    [op |-> op, path |-> p, raised |-> raised, count |-> count,
     pre_stats |-> stats]

\* __init__ with no file at db_path: load() initializes the schema.
LedgerInit ==
    /\ files = [p \in Paths |-> NoEntry]
    /\ order = <<>>
    /\ stats = InitialStatistics
    /\ version = SCHEMA_VERSION
    /\ keys = AllKeys
    /\ disk = NoStore
    /\ fs \in [Paths -> Contents \cup {NoFile}]
    /\ op_budget = MaxLedgerOps
    /\ fault_budget = 0
    /\ nops = 0
    /\ nfail = 0
    /\ last = NoCall
    /\ RetryIdle
    /\ OtherPartsIdle

Called(c) ==
    /\ nops < op_budget
    /\ UNCHANGED <<op_budget, fault_budget>>
    /\ nops' = nops + 1
    /\ last' = c

\* add_processed_file(p, ..., duration_seconds, file_size_bytes) with the
\* metadata m, its save ending as sv: what it does to the ledger.
AddProcessed(p, m, sv) ==
    LET h == GetFileHash(p)
        f2 == [files EXCEPT ![p] = CompletedEntry(h.hash, m[1], m[2])]
        o2 == KeyOrderAfterSet(order, p)
        s2 == StatsAfterProcessed(files[p], m[1], m[2])
    IN  /\ UNCHANGED <<version, keys>>
        /\ IF \/ h.raised
              \/ "files" \notin keys
              \/ "statistics" \notin keys /\ files[p].status = "failed"
           THEN \* get_file_hash raises, or a KeyError before any change
                /\ sv = "ok"
                /\ Called(Call("add_processed_file", p, TRUE, 0))
                /\ UNCHANGED <<files, order, stats, disk, fs, nfail>>
           ELSE IF "statistics" \notin keys
           THEN \* the entry is written, then the counter raises KeyError
                /\ sv = "ok"
                /\ files' = f2
                /\ order' = o2
                /\ Called(Call("add_processed_file", p, TRUE, 0))
                /\ UNCHANGED <<stats, disk, fs, nfail>>
           ELSE /\ files' = f2
                /\ order' = o2
                /\ stats' = s2
                /\ disk' = Saved(sv, f2, o2, s2)
                /\ SaveEnds(sv)
                /\ Called(Call("add_processed_file", p, sv # "ok", 0))
                /\ UNCHANGED fs

\* add_processed_file called on its own
AddProcessedFile ==
    /\ \E p \in Paths, m \in MetaInputs, sv \in SaveOutcomes :
          AddProcessed(p, m, sv)
    /\ UNCHANGED <<r_vars, x_vars>>

\* add_failed_file(p, error, file_size_bytes): every exception is swallowed
AddFailedFile ==
    /\ \E p \in Paths, err \in ErrorTexts, sv \in SaveOutcomes :
           LET h == GetFileHash(p)
               f2 == [files EXCEPT ![p] = FailedEntry(h.hash, err, 0)]
               o2 == KeyOrderAfterSet(order, p)
               s2 == StatsAfterFailed(files[p])
           IN  /\ UNCHANGED <<version, keys>>
               /\ Called(Call("add_failed_file", p, FALSE, 0))
               /\ IF \/ "files" \notin keys
                     \/ "statistics" \notin keys
                        /\ files[p].status = "completed"
                  THEN \* a KeyError before any change, swallowed
                       /\ sv = "ok"
                       /\ UNCHANGED <<files, order, stats, disk, fs, nfail>>
                  ELSE IF "statistics" \notin keys
                  THEN \* the entry is written, then the counter raises KeyError
                       /\ sv = "ok"
                       /\ files' = f2
                       /\ order' = o2
                       /\ UNCHANGED <<stats, disk, fs, nfail>>
                  ELSE /\ files' = f2
                       /\ order' = o2
                       /\ stats' = s2
                       /\ disk' = Saved(sv, f2, o2, s2)
                       /\ SaveEnds(sv)
                       /\ UNCHANGED fs
    /\ UNCHANGED <<r_vars, x_vars>>

RemoveEntry_Keep(f, p) == f

\* del files[p]
RemoveEntry(f, p) == [f EXCEPT ![p] = NoEntry]

\* remove_processed_file(p)
RemoveProcessedFile ==
    /\ \E p \in Paths, sv \in SaveOutcomes :
           IF files[p] = NoEntry
           THEN /\ sv = "ok"
                /\ Called(Call("remove_processed_file", p, FALSE, 0))
                /\ UNCHANGED <<files, order, stats, version, keys, disk, fs,
                               nfail>>
           ELSE IF "statistics" \notin keys
           THEN \* self.data["statistics"] raises KeyError
                /\ sv = "ok"
                /\ Called(Call("remove_processed_file", p, TRUE, 0))
                /\ UNCHANGED <<files, order, stats, version, keys, disk, fs,
                               nfail>>
           ELSE LET f2 == RemoveEntry(files, p)
                    o2 == KeyOrderAfterDel(order, p)
                    s2 == StatsAfterRemove(stats, files[p])
                IN  /\ files' = f2
                    /\ order' = o2
                    /\ stats' = s2
                    /\ disk' = Saved(sv, f2, o2, s2)
                    /\ SaveEnds(sv)
                    /\ Called(Call("remove_processed_file", p, sv # "ok", 0))
                    /\ UNCHANGED <<fs, version, keys>>
    /\ UNCHANGED <<r_vars, x_vars>>

\* The loop of cleanup_orphaned_entries over the keys ks (a snapshot of the
\* key order), from the ledger state st = [files, order, stats, disk,
\* removed, raised, save_failed]; the save of the fail-th removal ends as
\* sv, the earlier ones succeed.  A removal also raises (KeyError) when
\* self.data has no "statistics".
RECURSIVE CleanupLoop(_, _, _, _)
CleanupLoop(st, ks, fail, sv) ==
    IF ks = <<>> \/ st.raised
    THEN st
    ELSE LET p == Head(ks)
         IN  IF fs[p] # NoFile
             THEN CleanupLoop(st, Tail(ks), fail, sv)
             ELSE IF "statistics" \notin keys
             THEN [st EXCEPT !.raised = TRUE]
             ELSE LET f2 == RemoveEntry(st.files, p)
                      o2 == KeyOrderAfterDel(st.order, p)
                      s2 == StatsAfterRemove(st.stats, st.files[p])
                      failed == (st.removed + 1 = fail) /\ sv # "ok"
                      d2 == IF failed
                            THEN IF sv = "fail_in_write"
                                 THEN TruncatedStore ELSE st.disk
                            ELSE Document(f2, o2, s2)
                  IN  CleanupLoop(
                          [files |-> f2, order |-> o2, stats |-> s2,
                           disk |-> d2,
                           removed |-> IF failed THEN st.removed
                                       ELSE st.removed + 1,
                           raised |-> failed, save_failed |-> failed],
                          Tail(ks), fail, sv)

\* cleanup_orphaned_entries()
CleanupOrphanedEntries ==
    /\ \E fail \in 0..Cardinality(Paths), sv \in SaveOutcomes :
           /\ (fail = 0) = (sv = "ok")
           /\ LET r == CleanupLoop(
                           [files |-> files, order |-> order, stats |-> stats,
                            disk |-> disk, removed |-> 0, raised |-> FALSE,
                            save_failed |-> FALSE],
                           order, fail, sv)
              IN  /\ files' = r.files
                  /\ order' = r.order
                  /\ stats' = r.stats
                  /\ disk' = r.disk
                  /\ (fail # 0) = r.save_failed
                  /\ SaveEnds(IF r.save_failed THEN sv ELSE "ok")
                  /\ Called(Call("cleanup_orphaned_entries", NoPath, r.raised,
                                 r.removed))
                  /\ UNCHANGED <<fs, version, keys>>
    /\ UNCHANGED <<r_vars, x_vars>>

\* The environment writes (creates or modifies) an audio file.
WriteAudioFile ==
    /\ \E p \in Paths, c \in Contents : c # fs[p] /\ fs' = [fs EXCEPT ![p] = c]
    /\ UNCHANGED <<files, order, stats, version, keys, disk, op_budget,
                   fault_budget, nops, nfail, last, r_vars, x_vars>>

\* The environment deletes an audio file.
DeleteAudioFile ==
    /\ \E p \in Paths : fs[p] # NoFile /\ fs' = [fs EXCEPT ![p] = NoFile]
    /\ UNCHANGED <<files, order, stats, version, keys, disk, op_budget,
                   fault_budget, nops, nfail, last, r_vars, x_vars>>

\* _initialize_schema: the new, empty self.data
FreshLedger ==
    [files |-> [p \in Paths |-> NoEntry], order |-> <<>>,
     stats |-> InitialStatistics, version |-> SCHEMA_VERSION,
     keys |-> AllKeys]

\* load(): self.data after loading the content d of db_path.  The schema is
\* initialized when there is no file, when json.load raises, when the
\* document is empty (or no JSON object), and when it has no "version";
\* every other document becomes self.data as it is.
Load(d) ==
    IF d.state = "missing" THEN FreshLedger
    ELSE IF d.state = "truncated" THEN FreshLedger
    ELSE IF d.state = "empty" THEN FreshLedger
    ELSE IF d.version = NoVersion THEN FreshLedger
    ELSE [files |-> d.files, order |-> d.order, stats |-> d.stats,
          version |-> d.version, keys |-> d.keys]

\* The program starts again: ProcessedFilesDatabase(db_path) calls load().
Restart ==
    /\ LET m == Load(disk)
       IN  /\ files' = m.files
           /\ order' = m.order
           /\ stats' = m.stats
           /\ version' = m.version
           /\ keys' = m.keys
           /\ Called(Call("load", NoPath, FALSE, 0))
           /\ UNCHANGED <<disk, fs, nfail>>
    /\ UNCHANGED <<r_vars, x_vars>>

LedgerNext ==
    \/ AddProcessedFile
    \/ AddFailedFile
    \/ RemoveProcessedFile
    \/ CleanupOrphanedEntries
    \/ Restart
    \/ WriteAudioFile
    \/ DeleteAudioFile

\* retry_with_backoff(FlakyFunc, max_retries), up to a larger max_retries.
RetryLongInit ==
    /\ func = FlakyFunc
    /\ max_retries \in 0..MaxLongRetryBudget
    /\ has_on_retry \in BOOLEAN
    /\ attempt = 0
    /\ hist = <<>>
    /\ waits = <<>>
    /\ observed = <<>>
    /\ last_error = NoError
    /\ workers = {}
    /\ late = NoResult
    /\ r_pc = "loop"
    /\ r_result = NoResult
    /\ LedgerIdle
    /\ OtherPartsIdle

SpecRetry == RetryInit /\ [][RetryNext]_vars
SpecRetryLong == RetryLongInit /\ [][RetryNext]_vars
\* The same ledger, in a shorter run in which saves may fail.
LedgerFaultsInit ==
    /\ files = [p \in Paths |-> NoEntry]
    /\ order = <<>>
    /\ stats = InitialStatistics
    /\ version = SCHEMA_VERSION
    /\ keys = AllKeys
    /\ disk = NoStore
    /\ fs \in [Paths -> Contents \cup {NoFile}]
    /\ op_budget = MaxFaultyRunOps
    /\ fault_budget = MaxSaveFailures
    /\ nops = 0
    /\ nfail = 0
    /\ last = NoCall
    /\ RetryIdle
    /\ OtherPartsIdle

\* The documents that db_path may hold when the program starts: none, an
\* unparseable one, the empty object, and objects with the current version,
\* another version or none, with or without "files" and "statistics",
\* empty or with one Completed entry.
EmptyObject == [state |-> "empty"]
OneCompleted ==
    [p \in Paths |-> IF p = "a.m4a"
                     THEN [hash |-> MD5("audio1"), status |-> "completed",
                           duration_seconds |-> 2, file_size_bytes |-> 3,
                           error |-> "None"]
                     ELSE NoEntry]
StoredDocuments ==
    {NoStore, TruncatedStore, EmptyObject}
    \cup { StoredDocument(v, AllKeys, FreshLedger.files, <<>>,
                           InitialStatistics) :
              v \in {SCHEMA_VERSION, "0.9.0", NoVersion} }
    \cup { StoredDocument(v, AllKeys, OneCompleted, <<"a.m4a">>,
                           [InitialStatistics EXCEPT
                               !.total_processed = 1,
                               !.total_size_bytes = 3,
                               !.total_duration_seconds = 2]) :
              v \in {SCHEMA_VERSION, "0.9.0", NoVersion} }
    \cup { StoredDocument(v, {"files"}, OneCompleted, <<"a.m4a">>,
                           InitialStatistics) :
              v \in {SCHEMA_VERSION, "0.9.0"} }
    \cup { StoredDocument(v, {"statistics"}, FreshLedger.files, <<>>,
                           InitialStatistics) :
              v \in {SCHEMA_VERSION, "0.9.0"} }

\* __init__ with any of these documents at db_path: self.data is what
\* load() makes of it.
LedgerLoadInit ==
    /\ disk \in StoredDocuments
    /\ files = Load(disk).files
    /\ order = Load(disk).order
    /\ stats = Load(disk).stats
    /\ version = Load(disk).version
    /\ keys = Load(disk).keys
    /\ fs \in [Paths -> Contents \cup {NoFile}]
    /\ op_budget = MaxLoadRunOps
    /\ fault_budget = 0
    /\ nops = 0
    /\ nfail = 0
    /\ last = NoCall
    /\ RetryIdle
    /\ OtherPartsIdle

SpecLedger == LedgerInit /\ [][LedgerNext]_vars
SpecLedgerFaults == LedgerFaultsInit /\ [][LedgerNext]_vars
SpecLedgerLoad == LedgerLoadInit /\ [][LedgerNext]_vars

(***************************************************************************)
(* Claims about the call envelope, checked under SpecRetry.                *)
(***************************************************************************)
\* The error with which an attempt failed (NoError when it returned).
ErrorOf(o) ==
    IF o.kind = "timeout" THEN EnvelopeTimeout
    ELSE IF o.kind = "raised" THEN o.error
    ELSE NoError

\* The failures the envelope is meant to retry: a timeout of the attempt, a
\* TimeoutError, a RetryableError, or a message with a transient indicator.
TransientMessages ==
    { <<"503", "Server", "error">>, <<"Rate", "Limit", "exceeded">> }

FailedRetryably(o) ==
    \/ o.kind = "timeout"
    \/ /\ o.kind = "raised"
       /\ \/ o.error.cls \in {"TimeoutError", "RetryableError"}
          \/ o.error.msg \in TransientMessages

\* The failures the envelope is meant to treat as fatal.
FailedFatally(o) ==
    /\ o.kind = "raised"
    /\ o.error.cls = "Exception"
    /\ o.error.msg \in { <<"invalid", "API", "key">>,
                         <<"limit", "rate", "exceeded">> }

\* C1: when attempts 1..k-1 fail retryably and attempt k (k <= max_retries)
\* succeeds, retry_with_backoff returns attempt k's value, func has been
\* invoked exactly k times (no invocation follows the success), and on_retry,
\* when one is passed, has been called exactly k-1 times, with the attempt
\* numbers 1, 2, ..., k-1 in this order and the error of that attempt.
C1_SuccessAtAttemptK ==
    \A k \in 1..Len(hist) :
        hist[k].kind = "returned" =>
            /\ k <= max_retries
            /\ \A i \in 1..(k - 1) : FailedRetryably(hist[i])
            /\ Len(hist) = k
            /\ r_pc = "done"
            /\ r_result = Returned(hist[k].value)
            /\ IF has_on_retry
               THEN /\ Len(observed) = k - 1
                    /\ \A i \in 1..(k - 1) :
                           observed[i] = <<i, ErrorOf(hist[i])>>
               ELSE observed = <<>>

\* C1 witness: a success at the third attempt, after a timeout and a
\* transient error, with an on_retry callback.
C1_Witness ==
    /\ has_on_retry
    /\ Len(hist) = 3
    /\ hist[1].kind = "timeout"
    /\ hist[2].kind = "raised"
    /\ hist[3].kind = "returned"
    /\ r_pc = "done"

\* C2: func is never invoked more than max_retries times; and when
\* max_retries >= 1 and every attempt has failed retryably, the call ends
\* only after exactly max_retries invocations, by raising an Exception whose
\* message says that the maximum of max_retries retries was reached and ends
\* with the text of the error of the last attempt.
C2_ExhaustedAfterMaxRetries ==
    /\ Len(hist) <= max_retries
    /\ ( /\ r_pc = "done"
         /\ max_retries >= 1
         /\ \A i \in 1..Len(hist) : FailedRetryably(hist[i]) )
       => /\ Len(hist) = max_retries
          /\ r_result.kind = "raised"
          /\ r_result.error.cls = "Exception"
          /\ r_result.error.msg =
                <<"Maximum", "retries", NumStr(max_retries), "reached",
                  "Last", "error">> \o ErrorOf(hist[max_retries]).msg

\* C2, for the calls that are given no on_retry callback.
C2_WithoutObserver == has_on_retry \/ C2_ExhaustedAfterMaxRetries

\* C3: a fatal error raised by func on attempt n leaves retry_with_backoff at
\* once: it is the last invocation of func, the error itself is what the call
\* raises, no sleep follows it (n-1 sleeps in all), and on_retry is not called
\* for it (no call carries the attempt number n; at most n-1 calls in all).
C3_FatalPropagatesImmediately ==
    \A n \in 1..Len(hist) :
        FailedFatally(hist[n]) =>
            /\ Len(hist) = n
            /\ r_pc = "done"
            /\ r_result = Raised(hist[n].error)
            /\ Len(waits) = n - 1
            /\ Len(observed) <= n - 1
            /\ \A i \in 1..Len(observed) : observed[i][1] # n

\* C3 witness: a fatal error on the second attempt, with an on_retry callback.
C3_Witness ==
    /\ has_on_retry
    /\ Len(hist) = 2
    /\ FailedRetryably(hist[1])
    /\ FailedFatally(hist[2])
    /\ r_pc = "done"

(***************************************************************************)
(* Claims about the ledger, checked under SpecLedger (C10 under            *)
(* SpecLedgerFaults).                                                      *)
(***************************************************************************)
RECURSIVE SumOver(_, _)
SumOver(S, f) ==
    IF S = {} THEN 0
    ELSE LET x == CHOOSE y \in S : TRUE IN f[x] + SumOver(S \ {x}, f)

WithStatus(st) == {p \in Paths : files[p].status = st}

\* The statistics recomputed from the entries.
Recount ==
    [total_processed |-> Cardinality(WithStatus("completed")),
     total_failed |-> Cardinality(WithStatus("failed")),
     total_size_bytes |->
         SumOver(WithStatus("completed"),
                 [p \in Paths |-> IF files[p] = NoEntry THEN 0
                                  ELSE files[p].file_size_bytes]),
     total_duration_seconds |->
         SumOver(WithStatus("completed"),
                 [p \in Paths |-> IF files[p] = NoEntry THEN 0
                                  ELSE files[p].duration_seconds])]

NonNegative(st) ==
    /\ st.total_processed >= 0
    /\ st.total_failed >= 0
    /\ st.total_size_bytes >= 0
    /\ st.total_duration_seconds >= 0

\* A step that is a call of the ledger operation op.
CallOf(op) == nops' = nops + 1 /\ last'.op = op

\* C4: add_failed_file(p, err) followed by add_processed_file(p, ...) leaves
\* total_failed at its value before the failure was recorded and
\* total_processed exactly 1 above its value before the failure was
\* recorded, no counter being negative in between or afterwards.
C4_FailedThenCompleted ==
    [][ ( /\ last.op = "add_failed_file"
          /\ CallOf("add_processed_file")
          /\ last'.path = last.path
          /\ ~last'.raised )
        => /\ stats'.total_failed = last.pre_stats.total_failed
           /\ stats'.total_processed = last.pre_stats.total_processed + 1
           /\ NonNegative(stats) /\ NonNegative(stats') ]_vars

\* C5: add_processed_file(p, ...) on a path whose entry is already Completed
\* does not increment total_processed.
C5_CompletedCountedOnce ==
    [][ ( /\ CallOf("add_processed_file")
          /\ ~last'.raised
          /\ files[last'.path].status = "completed" )
        => stats'.total_processed = stats.total_processed ]_vars

\* C6: add_failed_file(p, err) lowers total_processed by one exactly when
\* p's prior entry was Completed, and afterwards p counts once in
\* total_failed: the counter rises by one unless the prior entry was already
\* Failed, and then it stays.
C6_FailureCounters ==
    [][ CallOf("add_failed_file")
        => LET old == files[last'.path]
           IN  /\ stats'.total_processed =
                      stats.total_processed
                      - (IF old.status = "completed" THEN 1 ELSE 0)
               /\ stats'.total_failed =
                      stats.total_failed
                      + (IF old.status = "failed" THEN 0 ELSE 1) ]_vars

\* C7: in every state reached from the empty ledger by add_processed_file,
\* add_failed_file, remove_processed_file and cleanup_orphaned_entries, the
\* statistics equal their recomputation from the entries.
C7_StatisticsMatchEntries == stats = Recount

\* C8: is_processed(p) never raises, and returns true exactly when p has an
\* entry, the entry's status is Completed, the file can be hashed and its
\* hash equals the stored one.
C8_IsProcessedIff ==
    \A p \in Paths :
        /\ ~IsProcessed(p).raised
        /\ IsProcessed(p).value =
              ( /\ files[p] # NoEntry
                /\ files[p].status = "completed"
                /\ fs[p] # NoFile
                /\ files[p].hash = MD5(fs[p]) )

\* C8 witness: one path is processed; the other has a Completed entry whose
\* file has vanished.
C8_Witness ==
    \E p, q \in Paths :
        /\ IsProcessed(p).value
        /\ files[q].status = "completed"
        /\ fs[q] = NoFile
        /\ ~IsProcessed(q).value

\* C9: when add_processed_file(p, ...) returns, is_processed(p) is true in
\* the state it returns in (the file as it was hashed), whatever p's entry
\* was before.
C9_ProcessedAfterSuccess ==
    [][ \A p \in Paths :
            ( CallOf("add_processed_file") /\ ~last'.raised
              /\ last'.path = p )
            => /\ fs' = fs
               /\ IsProcessed(p)'.value ]_vars

\* C9 witness: add_processed_file has just returned for a path whose entry
\* was Failed, and the path is processed.
C9_Witness ==
    /\ last.op = "add_processed_file"
    /\ ~last.raised
    /\ last.pre_stats.total_failed = 1
    /\ stats.total_failed = 0
    /\ IsProcessed(last.path).value

\* C10: after remove_processed_file(p), whether it returned or raised on
\* the save, p has no entry and is_processed(p) is false, until the next
\* ledger operation.
C10_NotProcessedAfterRemove ==
    last.op = "remove_processed_file"
        => /\ files[last.path] = NoEntry
           /\ ~IsProcessed(last.path).value
           /\ \A i \in 1..Len(order) : order[i] # last.path

\* C10 witness: the entry of an unchanged, processed file was removed, and
\* the save of the removal failed.
C10_Witness ==
    /\ last.op = "remove_processed_file"
    /\ last.raised
    /\ last.pre_stats.total_processed = 1
    /\ stats.total_processed = 0
    /\ fs[last.path] # NoFile


\* C11: remove_processed_file(p) takes back exactly p's contribution: a
\* Completed entry lowers total_processed by one and total_size_bytes and
\* total_duration_seconds by the entry's recorded size and duration; a
\* Failed entry lowers total_failed by one; an absent entry changes no
\* counter; and no other path's entry changes.
C11_RemoveReversesContribution ==
    [][ \A p \in Paths :
            ( CallOf("remove_processed_file") /\ last'.path = p )
            => LET e == files[p]
               IN  /\ files'[p] = NoEntry
                   /\ \A q \in Paths \ {p} : files'[q] = files[q]
                   /\ stats' =
                        IF e = NoEntry THEN stats
                        ELSE IF e.status = "completed"
                        THEN [stats EXCEPT
                                !.total_processed = @ - 1,
                                !.total_size_bytes = @ - e.file_size_bytes,
                                !.total_duration_seconds =
                                    @ - e.duration_seconds]
                        ELSE IF e.status = "failed"
                        THEN [stats EXCEPT !.total_failed = @ - 1]
                        ELSE stats ]_vars

\* The same, for removals from a ledger whose statistics match its entries.
C11_FromConsistentLedger ==
    [][ \A p \in Paths :
            ( CallOf("remove_processed_file") /\ last'.path = p
              /\ stats = Recount )
            => LET e == files[p]
               IN  /\ files'[p] = NoEntry
                   /\ \A q \in Paths \ {p} : files'[q] = files[q]
                   /\ stats' =
                        IF e = NoEntry THEN stats
                        ELSE IF e.status = "completed"
                        THEN [stats EXCEPT
                                !.total_processed = @ - 1,
                                !.total_size_bytes = @ - e.file_size_bytes,
                                !.total_duration_seconds =
                                    @ - e.duration_seconds]
                        ELSE [stats EXCEPT !.total_failed = @ - 1] ]_vars

(***************************************************************************)
(* Claims about persistence, checked under SpecLedgerFaults.               *)
(***************************************************************************)
MutatingOps ==
    {"add_processed_file", "add_failed_file", "remove_processed_file"}

\* A step that is a call of one of the three mutating operations.
MutatingCall == nops' = nops + 1 /\ last'.op \in MutatingOps

\* C12: whenever add_processed_file, add_failed_file or
\* remove_processed_file returns normally after changing the in-memory
\* ledger, the file at db_path holds the same files and statistics as memory.
C12_DurableOnReturn ==
    [][ ( /\ MutatingCall
          /\ ~last'.raised
          /\ <<files, stats>>' # <<files, stats>> )
        => /\ disk'.state = "valid"
           /\ disk'.files = files'
           /\ disk'.stats = stats' ]_vars

\* C13: a save that fails inside add_processed_file, add_failed_file or
\* remove_processed_file is raised to the caller of that operation.
C13_SaveFailureRaised ==
    [][ ( MutatingCall /\ nfail' = nfail + 1 ) => last'.raised ]_vars

\* C14: a save that fails, before or after it has opened db_path, leaves
\* the document persisted before it intact: a load after the failure
\* recovers every entry that was Completed in that document.
C14_FailedSaveKeepsStore ==
    [][ ( nfail' = nfail + 1 /\ disk.state = "valid" )
        => \A p \in Paths :
               disk.files[p].status = "completed"
                   => Load(disk').files[p] = disk.files[p] ]_vars

(***************************************************************************)
(* Claims about load, checked under SpecLedgerLoad.                        *)
(***************************************************************************)
\* C15: after load, self.data is a well-formed ledger of the current schema
\* version: it has the version SCHEMA_VERSION and both the files and the
\* statistics maps, and it is the new, empty ledger unless db_path held a
\* well-formed document of that version.
C15_LoadedLedgerWellFormed ==
    ( nops = 0 \/ last.op = "load" )
    => /\ version = SCHEMA_VERSION
       /\ keys = AllKeys
       /\ ( ~( /\ disk.state = "valid"
               /\ disk.version = SCHEMA_VERSION
               /\ disk.keys = AllKeys )
            => /\ files = FreshLedger.files
               /\ stats = InitialStatistics )

(***************************************************************************)
(* Further claims about the call envelope: C16 under SpecRetryLong, the    *)
(* others under SpecRetry.                                                 *)
(***************************************************************************)
\* C16: no sleep precedes the first attempt, and the n-th retry (attempt
\* n + 1) is preceded by one sleep of min(10 * 2^(n-1), 120) seconds; the
\* sleeps of a call never decrease and never exceed 120.
C16_BackoffSchedule ==
    /\ Len(waits) = (IF hist = <<>> THEN 0 ELSE Len(hist) - 1)
    /\ \A n \in 1..Len(waits) :
          /\ waits[n] = Min(10 * 2 ^ (n - 1), 120)
          /\ waits[n] <= 120
          /\ n > 1 => waits[n - 1] <= waits[n]

\* C16 witness: six attempts; the fourth retry waited 80 seconds and the
\* fifth, where the doubling gives 160, waited the cap.
C16_Witness ==
    /\ Len(hist) = 6
    /\ Len(waits) = 5
    /\ waits[4] = 80
    /\ waits[5] = 120

\* C17: an attempt that ran into the timeout is never what the call raises,
\* and while attempts are left (it was attempt n < max_retries) attempt
\* n + 1 has been made or is the next step of the loop.
C17_TimeoutAlwaysRetried ==
    \A n \in 1..Len(hist) :
        hist[n].kind = "timeout" =>
            /\ r_result # Raised(EnvelopeTimeout)
            /\ n < max_retries =>
                  \/ Len(hist) > n
                  \/ r_pc = "loop" /\ attempt = n

\* C17, for the calls that are given no on_retry callback.
C17_WithoutObserver == has_on_retry \/ C17_TimeoutAlwaysRetried

\* The error that ends a call without attempts left.
IsBudgetError(e) ==
    /\ e.cls = "Exception"
    /\ Len(e.msg) > 6
    /\ SubSeq(e.msg, 1, 6) =
          <<"Maximum", "retries", NumStr(max_retries), "reached", "Last",
            "error">>

\* C18: whatever retry_with_backoff raises is a fatal error that func raised
\* in the last attempt, or the error that says the retries are used up.
C18_OnlyFatalOrExhausted ==
    r_result.kind = "raised" =>
        \/ /\ hist # <<>>
           /\ FailedFatally(hist[Len(hist)])
           /\ r_result = hist[Len(hist)]
        \/ IsBudgetError(r_result.error)

\* C18, for the calls that are given no on_retry callback.
C18_WithoutObserver == has_on_retry \/ C18_OnlyFatalOrExhausted

\* C19: a timed-out attempt does not hold the loop back (the next step of
\* the loop is enabled while its worker is alive), and what an abandoned
\* worker leaves behind is never used: the call returns only the value that
\* its last attempt returned in time, raises only the error that its last
\* attempt raised in time, the budget error with the error of its last
\* attempt, or what on_retry raised; and on_retry is handed only errors of
\* attempts as they ended in time.
C19_LateOutcomeDiscarded ==
    /\ ( r_pc = "loop" /\ LoopContinues(attempt) ) => ENABLED AttemptTimesOut
    /\ r_pc = "loop" => attempt = Len(hist)
    /\ r_result.kind = "returned" =>
          hist # <<>> /\ r_result = hist[Len(hist)]
    /\ r_result.kind = "raised" =>
          \/ hist # <<>> /\ r_result = hist[Len(hist)]
          \/ r_result.error =
                ExhaustedError(max_retries,
                               IF hist = <<>> THEN NoError
                               ELSE ErrorOf(hist[Len(hist)]))
          \/ r_result = Raised(ObserverError)
    /\ \A i \in 1..Len(observed) :
          /\ observed[i][1] \in 1..Len(hist)
          /\ observed[i][2] = ErrorOf(hist[observed[i][1]])

\* C19 witness: the first attempt timed out, its worker ended later with a
\* value, and the call returned the other value, that of its second attempt.
C19_Witness ==
    /\ Len(hist) = 2
    /\ hist[1].kind = "timeout"
    /\ workers = {}
    /\ late = Returned("text2")
    /\ r_pc = "done"
    /\ r_result = Returned("text1")

\* How a call with the outcomes h and max_retries = n ends when no on_retry
\* is passed: it is over once an attempt has returned or failed fatally, or
\* once n attempts are made, and it ends with that value or error, or else
\* with the budget error.
EndsWithoutObserver(h, n) ==
    \/ Len(h) = n
    \/ h # <<>> /\ ( h[Len(h)].kind = "returned" \/ FailedFatally(h[Len(h)]) )

ResultWithoutObserver(h, n) ==
    IF h # <<>> /\ ( h[Len(h)].kind = "returned" \/ FailedFatally(h[Len(h)]) )
    THEN h[Len(h)]
    ELSE Raised(ExhaustedError(n, IF h = <<>> THEN NoError
                                  ELSE ErrorOf(h[Len(h)])))

\* C20: on_retry does not change the course of a call: whether none is
\* passed, or one that returns, or one that raises, a call with the same
\* attempt outcomes invokes func as often and ends with the same value or
\* error, which are those of the call without on_retry.
C20_ObserverNeutral ==
    r_pc = "done" =>
        /\ EndsWithoutObserver(hist, max_retries)
        /\ r_result = ResultWithoutObserver(hist, max_retries)

\* C20, for the calls that are given no on_retry callback.
C20_WithoutObserver == has_on_retry \/ C20_ObserverNeutral

(***************************************************************************)
(* Claims about cleanup_orphaned_entries, checked under SpecLedger.        *)
(***************************************************************************)
\* The paths with an entry whose file no longer exists.
Orphans == {p \in Paths : files[p] # NoEntry /\ fs[p] = NoFile}

\* The statistics st with the contributions of the entries of the paths S
\* taken back.
WithoutContributions(st, S) ==
    LET done == S \cap WithStatus("completed")
        bad == S \cap WithStatus("failed")
    IN  [total_processed |-> st.total_processed - Cardinality(done),
         total_failed |-> st.total_failed - Cardinality(bad),
         total_size_bytes |->
             st.total_size_bytes
             - SumOver(done, [p \in Paths |-> IF files[p] = NoEntry THEN 0
                                              ELSE files[p].file_size_bytes]),
         total_duration_seconds |->
             st.total_duration_seconds
             - SumOver(done, [p \in Paths |-> IF files[p] = NoEntry THEN 0
                                              ELSE files[p].duration_seconds])]

\* C22: cleanup_orphaned_entries() removes exactly the entries whose path no
\* longer exists on disk, returns the number of entries removed, leaves every
\* entry whose path exists unchanged, and takes the removed entries'
\* contributions back from the statistics.
C22_CleanupRemovesOrphans ==
    [][ CallOf("cleanup_orphaned_entries")
        => /\ \A p \in Paths :
                files'[p] = IF p \in Orphans THEN NoEntry ELSE files[p]
           /\ last'.count = Cardinality(Orphans)
           /\ stats' = WithoutContributions(stats, Orphans) ]_vars

\* The same, for a cleanup of a ledger whose statistics match its entries.
C22_FromConsistentLedger ==
    [][ ( CallOf("cleanup_orphaned_entries") /\ stats = Recount )
        => /\ \A p \in Paths :
                files'[p] = IF p \in Orphans THEN NoEntry ELSE files[p]
           /\ last'.count = Cardinality(Orphans)
           /\ stats' = WithoutContributions(stats, Orphans) ]_vars

(***************************************************************************)
(* VADProcessor._group_segments (src/audio/vad.py).  Times are on a grid   *)
(* (a grid step stands for a tenth of a second, the resolution of the      *)
(* timestamps the detector returns in seconds); the function only          *)
(* subtracts and compares them.                                            *)
(***************************************************************************)
\* A speech interval as the detector reports it: {"start": s, "end": e}.
GridIntervals ==
    {[start |-> s, end |-> e] : s \in 0..MaxTime, e \in 0..MaxTime}

\* What get_speech_timestamps returns: at most n speech intervals of
\* positive length in time order, none starting before `from`, each ending
\* before or when the next one starts.  The empty list is included:
\* _group_segments handles it, though split_audio returns before calling it
\* then.
RECURSIVE SpeechTimestampsFrom(_, _)
SpeechTimestampsFrom(n, from) ==
    IF n = 0 THEN {<<>>}
    ELSE {<<>>} \cup
         UNION {{<<iv>> \o rest : rest \in SpeechTimestampsFrom(n - 1, iv.end)} :
                iv \in {x \in GridIntervals :
                           from <= x.start /\ x.start < x.end}}

SpeechTimestamps == SpeechTimestampsFrom(MaxIntervals, 0)

\* The test of the loop: timestamp["end"] - current_start <= max_duration.
ExtendsGroup_Always(t, cs, D) == TRUE

ExtendsGroup_Strict(t, cs, D) == t.end - cs < D

ExtendsGroup(t, cs, D) == t.end - cs <= D

\* The then-branch: current_end = timestamp["end"].
ExtendedEnd_Kept(ce, t) == ce

ExtendedEnd(ce, t) == t.end

\* After the loop: segments.append((current_start, current_end)).
FinalGroups_Dropped(segs, cs, ce) == segs

FinalGroups(segs, cs, ce) == Append(segs, <<cs, ce>>)

\* The for loop over timestamps[1:], from the locals current_start,
\* current_end and segments.
RECURSIVE GroupLoop(_, _, _, _, _)
GroupLoop(ts, D, cs, ce, segs) ==
    IF ts = <<>>
    THEN FinalGroups(segs, cs, ce)
    ELSE LET t == Head(ts)
         IN  IF ExtendsGroup(t, cs, D)
             THEN GroupLoop(Tail(ts), D, cs, ExtendedEnd(ce, t), segs)
             ELSE GroupLoop(Tail(ts), D, t.start, t.end,
                            Append(segs, <<cs, ce>>))

\* _group_segments(timestamps, max_duration): a list of (start, end) tuples.
GroupSegments(ts, D) ==
    IF ts = <<>> THEN <<>>
    ELSE GroupLoop(Tail(ts), D, ts[1].start, ts[1].end, <<>>)

\* The (start, end) tuples of a result as a list of timestamps, the form
\* _group_segments takes.
AsTimestamps(segs) ==
    [i \in 1..Len(segs) |-> [start |-> segs[i][1], end |-> segs[i][2]]]

GroupInit ==
    /\ timestamps \in SpeechTimestamps
    /\ max_duration \in 1..MaxDuration
    /\ segments = <<>>
    /\ regrouped = <<>>
    /\ g_pc = "input"
    /\ RetryIdle
    /\ LedgerIdle
    /\ ServiceIdle
    /\ HandlerIdle
    /\ ThreadsIdle
    /\ LaterPartsIdle

\* segments = self._group_segments(speech_timestamps, max_duration)
Group ==
    /\ g_pc = "input"
    /\ segments' = GroupSegments(timestamps, max_duration)
    /\ g_pc' = "grouped"
    /\ UNCHANGED <<timestamps, max_duration, regrouped, g_rest>>

\* _group_segments applied to its own result, with the same max_duration.
Regroup ==
    /\ g_pc = "grouped"
    /\ regrouped' = GroupSegments(AsTimestamps(segments), max_duration)
    /\ g_pc' = "regrouped"
    /\ UNCHANGED <<timestamps, max_duration, segments, g_rest>>

GroupNext ==
    \/ Group
    \/ Regroup

SpecGroup == GroupInit /\ [][GroupNext]_vars

(***************************************************************************)
(* Claims about _group_segments, checked under SpecGroup.                  *)
(***************************************************************************)
\* The input intervals that lie inside the group g = (start, end).
MembersOf(g) ==
    {i \in 1..Len(timestamps) :
        g[1] <= timestamps[i].start /\ timestamps[i].end <= g[2]}

\* C23: every group _group_segments emits has span end - start at most
\* max_duration, except a group made of a single input interval whose own
\* span exceeds max_duration.
C23_GroupSpanBounded ==
    g_pc \in {"grouped", "regrouped"}
    => \A k \in 1..Len(segments) :
          LET g == segments[k]
          IN  \/ g[2] - g[1] <= max_duration
              \/ /\ Cardinality(MembersOf(g)) = 1
                 /\ \E i \in MembersOf(g) :
                        /\ timestamps[i].start = g[1]
                        /\ timestamps[i].end = g[2]

\* A result with a group of several intervals that fills max_duration and a
\* group of one interval that exceeds it.
C23_Witness ==
    /\ g_pc = "grouped"
    /\ \E k \in 1..Len(segments) :
          /\ Cardinality(MembersOf(segments[k])) >= 2
          /\ segments[k][2] - segments[k][1] = max_duration
    /\ \E k \in 1..Len(segments) :
          /\ Cardinality(MembersOf(segments[k])) = 1
          /\ segments[k][2] - segments[k][1] > max_duration

SegmentTexts == {<<"hello">>, <<"good", "day">>}

\* What it raises: the envelope's errors after the retries.
SegmentErrors ==
    { ExhaustedError(5, [cls |-> "Exception",
                         msg |-> <<"503", "Server", "error">>]),
      [cls |-> "Exception", msg |-> <<"invalid", "API", "key">>] }

\* An exception that is not an Exception, raised in the thread of the loop
\* while it waits for a segment: the run is cancelled.
KeyboardInterrupt == [cls |-> "KeyboardInterrupt", msg |-> <<>>]

\* What _create_audio_segments raises when a segment file cannot be written.
ExportError == [cls |-> "OSError", msg |-> <<"No", "space", "left">>]

\* f"[セグメント {i + 1} の文字起こしに失敗: {e}]" for the loop index i (from 0):
\* "[segment <i + 1> transcription failed: <e>]".
Placeholder_ZeroBased(i, e) ==
    <<"[segment", NumStr(i), "failed:">> \o StrOf(e) \o <<"]">>

Placeholder(i, e) ==
    <<"[segment", NumStr(i + 1), "failed:">> \o StrOf(e) \o <<"]">>

\* The separator of "\n\n".join, as one word.
Separator == <<"\n\n">>

RECURSIVE JoinBlocks_Concatenated(_)
JoinBlocks_Concatenated(bs) ==
    IF bs = <<>> THEN <<>>
    ELSE bs[1] \o JoinBlocks_Concatenated(Tail(bs))

\* "\n\n".join(transcriptions)
RECURSIVE JoinBlocks(_)
JoinBlocks(bs) ==
    IF bs = <<>> THEN <<>>
    ELSE IF Len(bs) = 1 THEN bs[1]
    ELSE bs[1] \o Separator \o JoinBlocks(Tail(bs))

SegmentsInit ==
    /\ groups \in 0..MaxGroups
    /\ on_disk = {AudioFile}
    /\ temp_files = <<>>
    /\ seg_paths = <<>>
    /\ seg_i = 0
    /\ calls = <<>>
    /\ transcriptions = <<>>
    /\ full_transcription = NoText
    /\ s_pc = "split"
    /\ RetryIdle
    /\ LedgerIdle
    /\ GroupIdle
    /\ HandlerIdle
    /\ ThreadsIdle
    /\ LaterPartsIdle

\* split_audio when no speech was detected: the audio file itself is the
\* only segment, return [(0, get_audio_duration(audio_path), audio_path)].
SplitWithoutSpeech ==
    /\ s_pc = "split"
    /\ groups = 0
    /\ seg_paths' = <<AudioFile>>
    /\ s_pc' = "loop"
    /\ UNCHANGED <<groups, on_disk, temp_files, seg_i, calls, transcriptions,
                   full_transcription, s_rest>>

\* One iteration of the loop of _create_audio_segments: the temporary file
\* is created and written, and appended to temp_files; after the last
\* iteration temp_files is returned as the segments.
CreateSegmentFile ==
    /\ s_pc = "split"
    /\ Len(temp_files) < groups
    /\ LET f == SegmentFile(Len(temp_files) + 1)
       IN  /\ on_disk' = on_disk \cup {f}
           /\ temp_files' = Append(temp_files, f)
    /\ IF Len(temp_files') = groups
       THEN seg_paths' = temp_files' /\ s_pc' = "loop"
       ELSE UNCHANGED <<seg_paths, s_pc>>
    /\ UNCHANGED <<groups, seg_i, calls, transcriptions, full_transcription,
                   s_rest>>

\* An iteration of that loop raises: in NamedTemporaryFile (no file is
\* left) or in segment.export (the file, created with delete=False, is
\* left).  Nothing catches it before the caller of _transcribe_with_vad.
CreateSegmentFails ==
    /\ s_pc = "split"
    /\ Len(temp_files) < groups
    /\ \E left \in BOOLEAN :
          on_disk' = IF left
                     THEN on_disk \cup {SegmentFile(Len(temp_files) + 1)}
                     ELSE on_disk
    /\ full_transcription' = Raised(ExportError)
    /\ s_pc' = "raised"
    /\ UNCHANGED <<groups, temp_files, seg_paths, seg_i, calls,
                   transcriptions, s_rest>>

\* One iteration of the loop of _transcribe_with_vad in which
\* transcribe_audio ends as the outcome o, with the block it appends (none
\* when the exception is not caught); the finally clause removes the
\* segment's file.
AfterFinally_Kept(existing, path) == existing

\* The finally clause of an iteration: the segment's file, if it exists, is
\* removed.
AfterFinally(existing, path) == existing \ {path}

Iteration(o, block) ==
    /\ s_pc = "loop"
    /\ seg_i < Len(seg_paths)
    /\ calls' = Append(calls, [path |-> seg_paths[seg_i + 1], outcome |-> o])
    /\ transcriptions' = transcriptions \o block
    /\ on_disk' = AfterFinally(on_disk, seg_paths[seg_i + 1])
    /\ seg_i' = seg_i + 1
    /\ UNCHANGED <<groups, temp_files, seg_paths, s_rest>>

\* transcribe_audio returns the segment's text.
TranscribeSegment ==
    \E t \in SegmentTexts :
        /\ Iteration(Returned(t), <<t>>)
        /\ UNCHANGED <<full_transcription, s_pc>>

\* transcribe_audio raises an Exception: "except Exception as e".
SegmentFails ==
    \E e \in SegmentErrors :
        /\ Iteration(Raised(e), <<Placeholder(seg_i, e)>>)
        /\ UNCHANGED <<full_transcription, s_pc>>

\* The loop's thread is interrupted during transcribe_audio: the exception
\* passes "except Exception" and, after the finally clause, leaves
\* _transcribe_with_vad.
SegmentCancelled ==
    /\ Iteration(Raised(KeyboardInterrupt), <<>>)
    /\ full_transcription' = Raised(KeyboardInterrupt)
    /\ s_pc' = "raised"

\* After the loop: return "\n\n".join(transcriptions).
JoinTranscriptions ==
    /\ s_pc = "loop"
    /\ seg_i = Len(seg_paths)
    /\ full_transcription' = JoinBlocks(transcriptions)
    /\ s_pc' = "returned"
    /\ UNCHANGED <<groups, on_disk, temp_files, seg_paths, seg_i, calls,
                   transcriptions, s_rest>>

SegmentsNext ==
    \/ SplitWithoutSpeech
    \/ CreateSegmentFile
    \/ CreateSegmentFails
    \/ TranscribeSegment
    \/ SegmentFails
    \/ SegmentCancelled
    \/ JoinTranscriptions

SpecSegments == SegmentsInit /\ [][SegmentsNext]_vars

(***************************************************************************)
(* Claims about the segmented transcription, checked under SpecSegments.   *)
(***************************************************************************)
\* The calls of transcribe_audio that ended with an Exception.
FailedCalls ==
    {i \in 1..Len(calls) :
        /\ calls[i].outcome.kind = "raised"
        /\ calls[i].outcome.error # KeyboardInterrupt}

\* The words of the blocks bs[i..Len(bs)] with the separator between
\* consecutive blocks.
RECURSIVE BlocksFrom(_, _)
BlocksFrom(bs, i) ==
    IF i > Len(bs) THEN <<>>
    ELSE IF i = Len(bs) THEN bs[i]
    ELSE bs[i] \o <<"\n\n">> \o BlocksFrom(bs, i + 1)

\* C26: the segmented transcription returns exactly one text block per
\* segment, the blocks joined by the blank-line separator, block i being
\* the block of segment i (its text, or its placeholder when it failed),
\* however many segments failed.
C26_OneBlockPerSegment ==
    s_pc = "returned"
    => /\ Len(transcriptions) = Len(seg_paths)
       /\ Len(calls) = Len(seg_paths)
       /\ \A i \in 1..Len(seg_paths) :
             /\ calls[i].path = seg_paths[i]
             /\ IF i \in FailedCalls
                THEN /\ Len(transcriptions[i]) >= 3
                     /\ transcriptions[i][1] = "[segment"
                     /\ transcriptions[i][2] = NumStr(i)
                ELSE transcriptions[i] = calls[i].outcome.value
       /\ full_transcription = BlocksFrom(transcriptions, 1)

\* A returned transcription of three segments of which the second failed.
C26_Witness ==
    /\ s_pc = "returned"
    /\ Len(seg_paths) = 3
    /\ FailedCalls = {2}

\* C27: a segment whose transcription raises becomes a placeholder block
\* that names the segment's index counted from 1 and the error, and the
\* segments after it are still transcribed: the failure does not end the
\* run.
C27_FailedSegmentPlaceholder ==
    /\ \A i \in FailedCalls :
          transcriptions[i] =
              <<"[segment", NumStr(i), "failed:">>
              \o calls[i].outcome.error.msg \o <<"]">>
    /\ ( FailedCalls # {} /\ s_pc = "raised" )
          => calls[Len(calls)].outcome.error = KeyboardInterrupt
    /\ ( FailedCalls # {} /\ s_pc = "returned" )
          => \A j \in 1..Len(seg_paths) :
                /\ j <= Len(calls)
                /\ calls[j].path = seg_paths[j]

\* The first of three segments failed and the two after it returned text.
C27_Witness ==
    /\ s_pc = "returned"
    /\ Len(seg_paths) = 3
    /\ FailedCalls = {1}
    /\ calls[2].outcome.kind = "returned"
    /\ calls[3].outcome.kind = "returned"

\* The temporary segment files that exist.
SegmentFilesLeft == {f \in on_disk : f.kind = "segment"}

\* C28: every temporary segment file is deleted by the time the segmented
\* transcription exits, on every exit path, including an error while a
\* later segment file is created and a cancellation during a segment.
C28_NoSegmentFileLeft ==
    s_pc \in {"returned", "raised"} => SegmentFilesLeft = {}

\* The same, for the runs that return.
C28_WhenReturned ==
    s_pc = "returned" => SegmentFilesLeft = {}

(***************************************************************************)
(* ObsidianTranscriptionHandler.process_audio_file                         *)
(* (src/obsidian/handler.py), on the ledger of src/obsidian/database.py.   *)
(***************************************************************************)
\* The notes of an audio file: <stem>_文字起こし.md and <stem>_要約.md.
TranscriptionNote(p) == [path |-> p, kind |-> "transcription"]
SummaryNote(p) == [path |-> p, kind |-> "summary"]

\* Where a call of process_audio_file can fail: in transcribe_file, in the
\* save_note of the transcription note, in the save_note of the summary
\* note; "none" when none of them raises.
FailurePoints == {"none", "transcribe", "save_note", "save_summary"}

\* str(e) of the exception raised at a failure point.
ErrorAt(fail) ==
    CASE fail = "transcribe"   -> "Maximum retries (5) reached"
      [] fail = "save_note"    -> "Permission denied"
      [] fail = "save_summary" -> "Permission denied"
      [] fail = "no_audio"     -> "No such file or directory"
      [] fail = "empty"        -> "Maximum retries (5) reached"
      [] OTHER                 -> "None"

SkipsProcessing_Never(p) == FALSE

\* "if self.database.is_processed(audio_path): return True"
SkipsProcessing(p) == IsProcessed(p).value

\* The text of the response the API gives to the transcription request:
\* empty, or some text.
Responses == { <<>>, <<"hello">> }

\* The text of such a response when no request is made.
NoResponse == <<"-">>

Truthy_Always(text) == TRUE

\* Python's truth value of a str, as in "and response.text" and in
\* "if not transcription": false for the empty string only.
Truthy(text) == text # <<>>

EmptyResponseError ==
    [cls |-> "RetryableError",
     msg |-> <<"API", "returned", "empty", "response">>]

\* GeminiClient.generate_content on a response with the text resp: the text
\* when it is not empty; otherwise every attempt raises RetryableError and
\* retry_with_backoff ends on an Exception.
GenerateContent(resp) ==
    IF Truthy(resp) THEN Returned(resp) ELSE Raised(EmptyResponseError)

\* The record of a call of process_audio_file(p): the text of the API's
\* response to the transcription request (NoResponse when none was made),
\* what the call returned, how many remote calls it made (transcription,
\* summary), the notes it wrote and the error it caught ("None" when none).
Run(p, resp, result, remote, wrote, error) ==
    [path |-> p, response |-> resp, result |-> result, remote |-> remote,
     wrote |-> wrote, error |-> error]

HandlerInit ==
    /\ files = [p \in Paths |-> NoEntry]
    /\ order = <<>>
    /\ stats = InitialStatistics
    /\ version = SCHEMA_VERSION
    /\ keys = AllKeys
    /\ disk = NoStore
    /\ fs \in [Paths -> Contents \cup {NoFile}]
    /\ op_budget = MaxHandlerRuns
    /\ fault_budget = 0
    /\ nops = 0
    /\ nfail = 0
    /\ last = NoCall
    /\ create_summary \in BOOLEAN
    /\ vault = {}
    /\ h_runs = 0
    /\ h_last = NoRun
    /\ RetryIdle
    /\ GroupIdle
    /\ ServiceIdle
    /\ ThreadsIdle
    /\ LaterPartsIdle

\* A call of process_audio_file that returns without reaching
\* add_processed_file: the ledger is not touched.
ReturnsEarly(run, notes) ==
    /\ h_last' = run
    /\ vault' = vault \cup notes
    /\ UNCHANGED l_vars

\* process_audio_file(p).  fail is the point at which the call raises,
\* resp the text of the API's response to the transcription request,
\* summary_ok whether generate_summary returns a summary (it returns None
\* instead of raising), m the metadata read for the ledger (<<0, 0>> when
\* reading it fails: duration = file_size = None).
Process(p) ==
    \E fail \in FailurePoints, resp \in Responses, summary_ok \in BOOLEAN,
       m \in MetaInputs :
        /\ h_runs < MaxHandlerRuns
        /\ h_runs' = h_runs + 1
        /\ UNCHANGED create_summary
        /\ IF SkipsProcessing(p)
           THEN \* already processed: return True
                /\ fail = "none" /\ Truthy(resp) /\ summary_ok /\ m = <<0, 0>>
                /\ ReturnsEarly(Run(p, NoResponse, TRUE, 0, {}, "None"), {})
           ELSE IF fs[p] = NoFile
           THEN \* get_audio_duration raises in transcribe_file
                /\ fail = "none" /\ Truthy(resp) /\ summary_ok /\ m = <<0, 0>>
                /\ ReturnsEarly(Run(p, NoResponse, FALSE, 0, {},
                                    ErrorAt("no_audio")), {})
           ELSE IF fail = "transcribe"
           THEN \* the upload or the request raises
                /\ Truthy(resp) /\ summary_ok /\ m = <<0, 0>>
                /\ ReturnsEarly(Run(p, NoResponse, FALSE, 1, {},
                                    ErrorAt(fail)), {})
           ELSE IF GenerateContent(resp).kind = "raised"
           THEN \* the client refuses the empty response
                /\ fail = "none" /\ summary_ok /\ m = <<0, 0>>
                /\ ReturnsEarly(Run(p, resp, FALSE, 1, {}, ErrorAt("empty")),
                                {})
           ELSE IF ~Truthy(GenerateContent(resp).value)
           THEN \* "if not transcription: return False"
                /\ fail = "none" /\ summary_ok /\ m = <<0, 0>>
                /\ ReturnsEarly(Run(p, resp, FALSE, 1, {}, "None"), {})
           ELSE IF fail = "save_note"
           THEN /\ summary_ok /\ m = <<0, 0>>
                /\ ReturnsEarly(Run(p, resp, FALSE, 1, {}, ErrorAt(fail)), {})
           ELSE IF ~create_summary
           THEN /\ fail = "none" /\ summary_ok
                /\ h_last' = Run(p, resp, TRUE, 1, {TranscriptionNote(p)},
                                 "None")
                /\ vault' = vault \cup {TranscriptionNote(p)}
                /\ AddProcessed(p, m, "ok")
           ELSE IF ~summary_ok
           THEN \* no summary: only the transcription note
                /\ fail = "none"
                /\ h_last' = Run(p, resp, TRUE, 2, {TranscriptionNote(p)},
                                 "None")
                /\ vault' = vault \cup {TranscriptionNote(p)}
                /\ AddProcessed(p, m, "ok")
           ELSE IF fail = "save_summary"
           THEN /\ m = <<0, 0>>
                /\ ReturnsEarly(Run(p, resp, FALSE, 2, {TranscriptionNote(p)},
                                    ErrorAt(fail)),
                                {TranscriptionNote(p)})
           ELSE /\ h_last' = Run(p, resp, TRUE, 2,
                                 {TranscriptionNote(p), SummaryNote(p)},
                                 "None")
                /\ vault' = vault \cup {TranscriptionNote(p), SummaryNote(p)}
                /\ AddProcessed(p, m, "ok")

\* process_audio_file is called on some path (by the watcher's events).
ProcessAudioFile ==
    /\ \E p \in Paths : Process(p)
    /\ UNCHANGED h_rest

HandlerNext ==
    \/ ProcessAudioFile
    \/ WriteAudioFile
    \/ DeleteAudioFile

SpecHandler == HandlerInit /\ [][HandlerNext]_vars

(***************************************************************************)
(* Claims about process_audio_file, checked under SpecHandler.             *)
(***************************************************************************)
\* A step that is a call of process_audio_file(p).
ProcessCallOf(p) == h_runs' = h_runs + 1 /\ h_last'.path = p

\* C29: when is_processed(p) is true, process_audio_file(p) returns success
\* without any remote call, without writing a note and without changing the
\* ledger.
C29_ProcessedFileSkipped ==
    [][ \A p \in Paths :
            ( ProcessCallOf(p) /\ IsProcessed(p).value )
            => /\ h_last'.result = TRUE
               /\ h_last'.remote = 0
               /\ h_last'.wrote = {}
               /\ vault' = vault
               /\ <<files, order, stats, version, keys, disk>>'
                    = <<files, order, stats, version, keys, disk>>
               /\ nops' = nops ]_vars

\* process_audio_file was called on a file that is_processed reports as
\* processed.
C29_Witness ==
    /\ h_runs >= 2
    /\ IsProcessed(h_last.path).value
    /\ h_last.result = TRUE
    /\ h_last.remote = 0
    /\ TranscriptionNote(h_last.path) \in vault

\* C30: when the processing of a file fails as a whole, the ledger
\* afterwards holds a Failed entry for the file that carries the
\* stringified error.
C30_FailureRecorded ==
    [][ \A p \in Paths :
            ( ProcessCallOf(p) /\ h_last'.result = FALSE )
            => /\ files'[p] # NoEntry
               /\ files'[p].status = "failed"
               /\ files'[p].error = h_last'.error ]_vars

\* What the code does instead: a failed call leaves the ledger as it was.
C30_FailureLeavesLedger ==
    [][ \A p \in Paths :
            ( ProcessCallOf(p) /\ h_last'.result = FALSE )
            => /\ <<files, order, stats, disk>>' = <<files, order, stats, disk>>
               /\ \A q \in Paths : files'[q].status # "failed" ]_vars

(***************************************************************************)
(* The mutating operations of ProcessedFilesDatabase called from two       *)
(* threads, each for its own path (src/obsidian/database.py has no lock).  *)
(* The interpreter can switch threads at every call: between the reading   *)
(* of a counter and the storing of max(0, counter - n), and between the    *)
(* open() and the json.dump() of save().  An assignment of a dictionary    *)
(* item and an in-place "+=" on a counter are taken as one step each, and  *)
(* so is the writing of the document.                                      *)
(***************************************************************************)
ThreadOps == {"add_processed_file", "add_failed_file", "remove_processed_file"}

\* The steps of an operation.
ReadStep(k) == [do |-> "read", k |-> k, n |-> 0]
StoreStep(k, n) == [do |-> "store", k |-> k, n |-> n]
AddStep(k, n) == [do |-> "add", k |-> k, n |-> n]
SetStep == [do |-> "set", k |-> "-", n |-> 0]
DelStep == [do |-> "del", k |-> "-", n |-> 0]
OpenStep == [do |-> "open", k |-> "-", n |-> 0]
DumpStep == [do |-> "dump", k |-> "-", n |-> 0]

\* counter = max(0, counter - n)
Decrement(k, n) == <<ReadStep(k), StoreStep(k, n)>>

\* "if value: counter += value"
AddIfSet(k, n) == IF n # 0 THEN <<AddStep(k, n)>> ELSE <<>>

\* save(): open(self.db_path, "w"), then json.dump(self.data, f)
SaveSteps == <<OpenStep, DumpStep>>

\* The steps of add_processed_file on a path whose entry is old.
AddProcessedSteps(old, m) ==
    (IF old.status = "failed" THEN Decrement("total_failed", 1) ELSE <<>>)
    \o <<SetStep>>
    \o (IF old.status # "failed" THEN <<AddStep("total_processed", 1)>>
        ELSE <<>>)
    \o AddIfSet("total_duration_seconds", m[1])
    \o AddIfSet("total_size_bytes", m[2])
    \o SaveSteps

\* The steps of add_failed_file.
AddFailedSteps(old) ==
    (IF old.status = "completed" THEN Decrement("total_processed", 1)
     ELSE <<>>)
    \o <<SetStep>>
    \o (IF old.status # "completed" THEN <<AddStep("total_failed", 1)>>
        ELSE <<>>)
    \o SaveSteps

\* The steps of remove_processed_file.
RemoveSteps(old) ==
    IF old = NoEntry THEN <<>>
    ELSE (IF old.status = "completed"
          THEN Decrement("total_processed", 1)
               \o (IF old.duration_seconds # 0
                   THEN Decrement("total_duration_seconds",
                                  old.duration_seconds)
                   ELSE <<>>)
               \o (IF old.file_size_bytes # 0
                   THEN Decrement("total_size_bytes", old.file_size_bytes)
                   ELSE <<>>)
          ELSE IF old.status = "failed"
          THEN Decrement("total_failed", 1)
          ELSE <<>>)
         \o <<DelStep>> \o SaveSteps

StepsOf(op, old, m) ==
    CASE op = "add_processed_file"    -> AddProcessedSteps(old, m)
      [] op = "add_failed_file"       -> AddFailedSteps(old)
      [] op = "remove_processed_file" -> RemoveSteps(old)

\* The entry an operation assigns to its path.
EntryOf(op, p, m) ==
    IF op = "add_processed_file"
    THEN CompletedEntry(GetFileHash(p).hash, m[1], m[2])
    ELSE FailedEntry(GetFileHash(p).hash, "network down", 0)

\* The entries a path can have in a ledger built by earlier calls.
EntriesOf(p) ==
    {NoEntry, CompletedEntry(GetFileHash(p).hash, 2, 3),
     FailedEntry(GetFileHash(p).hash, "network down", 0)}

\* A ledger as earlier calls, one at a time, leave it (entries, statistics
\* and store agree), and one call per thread about to begin.
LedgerThreadsInit ==
    /\ fs = [p \in Paths |-> "audio1"]
    /\ files \in {f \in [Paths -> UNION {EntriesOf(p) : p \in Paths}] :
                     \A p \in Paths : f[p] \in EntriesOf(p)}
    /\ order = SelectSeq(<<"a.m4a", "b.mp3">>, LAMBDA p : files[p] # NoEntry)
    /\ stats = Recount
    /\ version = SCHEMA_VERSION
    /\ keys = AllKeys
    /\ disk = Document(files, order, stats)
    /\ op_budget = 0
    /\ fault_budget = 0
    /\ nops = 0
    /\ nfail = 0
    /\ last = NoCall
    /\ threads \in
         {th \in [Threads -> [op : ThreadOps, path : Paths, meta : MetaInputs,
                              pc : {"start"}, todo : {<<>>}, tmp : {0},
                              entry : {NoEntry}]] :
             \A t \in Threads :
                /\ th[t].path = PathOf(t)
                /\ th[t].op # "add_processed_file" => th[t].meta = <<0, 0>>}
    /\ ledger0 = [files |-> files, order |-> order, stats |-> stats,
                  disk |-> disk]
    /\ RetryIdle
    /\ GroupIdle
    /\ ServiceIdle
    /\ HandlerIdle
    /\ LaterPartsIdle

\* What a step of a thread leaves unchanged besides what it names.
ThreadFrame ==
    UNCHANGED <<version, keys, fs, op_budget, fault_budget, nops, nfail,
                last, ledger0, t_rest>>

\* Thread t has done the first of its remaining steps, with tmp as its
\* local value.
Advanced(t, tmp) ==
    threads' = [threads EXCEPT
                   ![t].todo = Tail(@),
                   ![t].tmp = tmp,
                   ![t].pc = IF Len(threads[t].todo) = 1 THEN "done"
                             ELSE "run"]

NextStepIs(t, do) ==
    /\ threads[t].pc = "run"
    /\ threads[t].todo # <<>>
    /\ Head(threads[t].todo).do = do

\* A thread enters its operation: it hashes the file and looks its path up.
ThreadBegins ==
    \E t \in Threads :
        /\ threads[t].pc = "start"
        /\ LET c == threads[t]
               old == files[c.path]
               todo == StepsOf(c.op, old, c.meta)
           IN  threads' = [threads EXCEPT
                              ![t].todo = todo,
                              ![t].entry = EntryOf(c.op, c.path, c.meta),
                              ![t].pc = IF todo = <<>> THEN "done"
                                        ELSE "run"]
        /\ UNCHANGED <<files, order, stats, disk>>
        /\ ThreadFrame

\* The argument of max(0, counter - n) is evaluated.
ReadCounter ==
    \E t \in Threads :
        /\ NextStepIs(t, "read")
        /\ Advanced(t, stats[Head(threads[t].todo).k])
        /\ UNCHANGED <<files, order, stats, disk>>
        /\ ThreadFrame

\* counter = max(0, <value read> - n)
StoreCounter ==
    \E t \in Threads :
        /\ NextStepIs(t, "store")
        /\ LET st == Head(threads[t].todo)
           IN  stats' = [stats EXCEPT ![st.k] = Max(0, threads[t].tmp - st.n)]
        /\ Advanced(t, threads[t].tmp)
        /\ UNCHANGED <<files, order, disk>>
        /\ ThreadFrame

\* counter += n
AddToCounter ==
    \E t \in Threads :
        /\ NextStepIs(t, "add")
        /\ LET st == Head(threads[t].todo)
           IN  stats' = [stats EXCEPT ![st.k] = @ + st.n]
        /\ Advanced(t, threads[t].tmp)
        /\ UNCHANGED <<files, order, disk>>
        /\ ThreadFrame

\* self.data["files"][str_path] = {...}
SetEntry ==
    \E t \in Threads :
        /\ NextStepIs(t, "set")
        /\ files' = [files EXCEPT ![threads[t].path] = threads[t].entry]
        /\ order' = KeyOrderAfterSet(order, threads[t].path)
        /\ Advanced(t, threads[t].tmp)
        /\ UNCHANGED <<stats, disk>>
        /\ ThreadFrame

\* del files[str_path]
DelEntry ==
    \E t \in Threads :
        /\ NextStepIs(t, "del")
        /\ files' = RemoveEntry(files, threads[t].path)
        /\ order' = KeyOrderAfterDel(order, threads[t].path)
        /\ Advanced(t, threads[t].tmp)
        /\ UNCHANGED <<stats, disk>>
        /\ ThreadFrame

\* save(): open(self.db_path, "w") truncates the file.
OpenStore ==
    \E t \in Threads :
        /\ NextStepIs(t, "open")
        /\ disk' = TruncatedStore
        /\ Advanced(t, threads[t].tmp)
        /\ UNCHANGED <<files, order, stats>>
        /\ ThreadFrame

\* save(): json.dump(self.data, f) writes self.data as it is now.
DumpStore ==
    \E t \in Threads :
        /\ NextStepIs(t, "dump")
        /\ disk' = Document(files, order, stats)
        /\ Advanced(t, threads[t].tmp)
        /\ UNCHANGED <<files, order, stats>>
        /\ ThreadFrame

LedgerThreadsNext ==
    \/ ThreadBegins
    \/ ReadCounter
    \/ StoreCounter
    \/ AddToCounter
    \/ SetEntry
    \/ DelEntry
    \/ OpenStore
    \/ DumpStore

SpecLedgerThreads == LedgerThreadsInit /\ [][LedgerThreadsNext]_vars

(***************************************************************************)
(* Claims about concurrent callers of the ledger, checked under            *)
(* SpecLedgerThreads.                                                      *)
(***************************************************************************)
\* The ledger L = [files, order, stats, disk] after the call c = [op, path,
\* meta] has run alone from beginning to end.
AfterCall(L, c) ==
    LET p == c.path
        old == L.files[p]
        Lower1(st, k) == [st EXCEPT ![k] = Max(0, @ - 1)]
        Raise1(st, k) == [st EXCEPT ![k] = @ + 1]
        Written(f, o, st) ==
            [files |-> f, order |-> o, stats |-> st,
             disk |-> StoredDocument(SCHEMA_VERSION, AllKeys, f, o, st)]
    IN  CASE c.op = "add_processed_file" ->
               LET s1 == IF old.status = "failed"
                         THEN Lower1(L.stats, "total_failed")
                         ELSE Raise1(L.stats, "total_processed")
                   s2 == [s1 EXCEPT
                             !.total_duration_seconds = @ + c.meta[1],
                             !.total_size_bytes = @ + c.meta[2]]
               IN  Written([L.files EXCEPT
                               ![p] = CompletedEntry(MD5(fs[p]), c.meta[1],
                                                     c.meta[2])],
                           KeyOrderAfterSet(L.order, p), s2)
          [] c.op = "add_failed_file" ->
               Written([L.files EXCEPT
                           ![p] = FailedEntry(MD5(fs[p]), "network down", 0)],
                       KeyOrderAfterSet(L.order, p),
                       IF old.status = "completed"
                       THEN Lower1(L.stats, "total_processed")
                       ELSE Raise1(L.stats, "total_failed"))
          [] c.op = "remove_processed_file" ->
               IF old = NoEntry THEN L
               ELSE Written([L.files EXCEPT ![p] = NoEntry],
                            KeyOrderAfterDel(L.order, p),
                            StatsAfterRemove(L.stats, old))

\* The ledger after the calls of the threads t1 and then t2, one after the
\* other, from the ledger the run began with.
SerialOutcome(t1, t2) == AfterCall(AfterCall(ledger0, threads[t1]), threads[t2])

BothDone == \A t \in Threads : threads[t].pc = "done"

\* C21: ledger mutations are atomic under concurrent callers: when
\* add_processed_file / add_failed_file / remove_processed_file for
\* different paths are interleaved, no counter update is lost, and the
\* statistics and the persisted store are those of some serial order of the
\* same operations.
C21_SerializableLedger ==
    BothDone
    => \E t1 \in Threads : \E t2 \in Threads \ {t1} :
           /\ files = SerialOutcome(t1, t2).files
           /\ stats = SerialOutcome(t1, t2).stats
           /\ disk = SerialOutcome(t1, t2).disk

\* What does hold: a call that runs while the other thread has not begun
\* leaves the ledger as the call leaves it on its own.
C21_AloneIsSerial ==
    \A t \in Threads : \A u \in Threads \ {t} :
        ( threads[t].pc = "done" /\ threads[u].pc = "start" )
        => LET L == AfterCall(ledger0, threads[t])
           IN  /\ files = L.files
               /\ order = L.order
               /\ stats = L.stats
               /\ disk = L.disk

(***************************************************************************)
(* The greedy forward merge as a reference, and the claim that             *)
(* _group_segments computes it; checked under SpecGroup.                   *)
(***************************************************************************)
\* The groups after the first i intervals of ts, the last of them being the
\* group still open: the first interval seeds a group; an interval extends
\* the open group's end while interval.end - group.start <= D, and otherwise
\* seeds a new group.
RECURSIVE GreedyGroups(_, _, _)
GreedyGroups(ts, D, i) ==
    IF i = 0 THEN <<>>
    ELSE IF i = 1 THEN << <<ts[1].start, ts[1].end>> >>
    ELSE LET gs == GreedyGroups(ts, D, i - 1)
             open == gs[Len(gs)]
         IN  IF ts[i].end - open[1] <= D
             THEN [gs EXCEPT ![Len(gs)] = <<open[1], ts[i].end>>]
             ELSE Append(gs, <<ts[i].start, ts[i].end>>)

\* The intervals [(0,5),(5,12),(40,45)].
ExampleIntervals ==
    <<[start |-> 0, end |-> 5], [start |-> 5, end |-> 12],
      [start |-> 40, end |-> 45]>>

\* C34: _group_segments computes exactly the greedy forward merge: its
\* result equals the reference's, the last group always emitted; an empty
\* input gives an empty output; and [(0,5),(5,12),(40,45)] with
\* max_duration 20 gives [(0,12),(40,45)].
C34_GreedyForwardMerge ==
    /\ g_pc \in {"grouped", "regrouped"}
          => /\ segments = GreedyGroups(timestamps, max_duration,
                                        Len(timestamps))
             /\ timestamps = <<>> => segments = <<>>
             /\ timestamps # <<>>
                   => segments[Len(segments)][2]
                        = timestamps[Len(timestamps)].end
    /\ g_pc = "grouped"
          => /\ GroupSegments(<<>>, max_duration) = <<>>
             /\ GroupSegments(ExampleIntervals, 20) = << <<0, 12>>, <<40, 45>> >>

\* A result in which an interval was merged at a span of exactly
\* max_duration and a later interval seeded a new group.
C34_Witness ==
    /\ g_pc = "grouped"
    /\ Len(segments) >= 2
    /\ \E k \in 1..Len(segments) :
          /\ Cardinality(MembersOf(segments[k])) >= 2
          /\ segments[k][2] - segments[k][1] = max_duration

(***************************************************************************)
(* When the observer is called; checked under SpecRetry.                   *)
(***************************************************************************)
\* C38: on_retry is called only after a failed retryable attempt that
\* another permitted attempt may follow: the i-th call comes after the i-th
\* attempt, which failed retryably, with i < max_retries, and carries
\* <<i, error of attempt i>>; there is no call before the first attempt or
\* after the last permitted one; and a run whose max_retries attempts all
\* failed made exactly max_retries - 1 calls.
C38_ObserverBetweenAttempts ==
    /\ ~has_on_retry => observed = <<>>
    /\ Len(observed) <= Len(hist)
    /\ \A i \in 1..Len(observed) :
          /\ i < max_retries
          /\ FailedRetryably(hist[i])
          /\ observed[i] = <<i, ErrorOf(hist[i])>>
    /\ ( /\ has_on_retry
         /\ max_retries >= 1
         /\ Len(hist) = max_retries
         /\ \A i \in 1..Len(hist) : FailedRetryably(hist[i]) )
          => Len(observed) = max_retries - 1

\* A run of three or more attempts, all failed, that ended on the budget
\* error after max_retries - 1 calls of the observer.
C38_Witness ==
    /\ r_pc = "done"
    /\ has_on_retry
    /\ max_retries >= 3
    /\ Len(hist) = max_retries
    /\ \A i \in 1..Len(hist) : FailedRetryably(hist[i])
    /\ r_result.kind = "raised" /\ IsBudgetError(r_result.error)
    /\ Len(observed) = max_retries - 1

C36_WithoutTimeout ==
    (\A i \in 1..Len(hist) : hist[i].kind # "timeout") => workers = {}

(***************************************************************************)
(* The end of the process after a timed-out attempt; checked under         *)
(* SpecRetry.                                                              *)
(***************************************************************************)
\* C40: a worker abandoned after a timeout never blocks shutdown: once
\* retry_with_backoff has left, the process can end, whether or not the
\* operation of a timed-out attempt has returned.
C40_AbandonedWorkerNeverBlocksExit ==
    ( r_pc = "done" /\ ~exited ) => ENABLED ProcessExits

\* What does hold: the process can end as soon as no worker is running.
C40_ExitsWithoutWorkers ==
    ( r_pc = "done" /\ ~exited /\ workers = {} ) => ENABLED ProcessExits

(***************************************************************************)
(* The sign of the counters; checked under SpecLedger.                     *)
(***************************************************************************)
\* C39: in every reachable ledger state, after any sequence of
\* add_processed_file, add_failed_file and remove_processed_file, each of
\* total_processed, total_failed, total_size_bytes and
\* total_duration_seconds is >= 0, in memory and in the stored document.
C39_CountersNeverNegative ==
    /\ NonNegative(stats)
    /\ disk.state = "valid" => NonNegative(disk.stats)

\* The failed entry of a path that had been Completed before is removed
\* while total_failed is 0: the decrement is clamped.
C39_Witness ==
    /\ nops = 3
    /\ last.op = "remove_processed_file" /\ ~last.raised
    /\ \A p \in Paths : files[p] = NoEntry
    /\ last.pre_stats.total_failed = 0
    /\ last.pre_stats.total_duration_seconds > 0
    /\ stats.total_failed = 0

(***************************************************************************)
(* When a segment's file is deleted; checked under SpecSegments.           *)
(***************************************************************************)
\* C37: each segment's file is deleted after that segment's own
\* transcription attempt and before the next segment's begins: at the step
\* that is the iteration of segment k, whatever the attempt's outcome, the
\* file of segment k exists before and is gone after, the files of the
\* segments before k are already gone, and no other file is deleted.
C37_SegmentFileDeletedInItsIteration ==
    [][ Len(calls') = Len(calls) + 1
        => LET k == Len(calls')
           IN  /\ calls'[k].path = seg_paths[k]
               /\ seg_paths[k] \in on_disk
               /\ seg_paths[k] \notin on_disk'
               /\ on_disk' = on_disk \ {seg_paths[k]}
               /\ \A j \in 1..(k - 1) : seg_paths[j] \notin on_disk
               /\ \A j \in (k + 1)..Len(seg_paths) : seg_paths[j] \in on_disk'
      ]_vars

\* Between the second and the third iteration, the first attempt having
\* failed: the first two files are gone and the third is still there.
C37_Witness ==
    /\ s_pc = "loop"
    /\ Len(seg_paths) = 3
    /\ Len(calls) = 2
    /\ calls[1].outcome.kind = "raised"
    /\ seg_paths[1] \notin on_disk /\ seg_paths[2] \notin on_disk
    /\ seg_paths[3] \in on_disk

(***************************************************************************)
(* transcribe_file of src/transcription/service.py: the probe of the       *)
(* duration, the direct path, and the segmented path modelled above.       *)
(***************************************************************************)
\* The test that sends a file to _transcribe_with_vad.
TakesSegmentedPath(uv, d, th) == uv /\ d > th

\* get_audio_duration raises when neither soundfile nor pydub can read the
\* file.
ProbeError ==
    [cls |-> "Exception", msg |-> <<"Failed", "to", "get", "audio", "duration">>]

\* What client.transcribe_audio can do on the direct path.
DirectOutcomes ==
    {Returned(t) : t \in SegmentTexts}
        \cup {Raised(e) : e \in SegmentErrors \cup {KeyboardInterrupt}}

TranscribeInit ==
    /\ use_vad \in BOOLEAN
    /\ duration \in 0..MaxProbe
    /\ vad_threshold \in 1..MaxProbe
    /\ route = "none"
    /\ tf_result = NoResult
    /\ groups \in 0..MaxGroups
    /\ on_disk = {AudioFile}
    /\ temp_files = <<>>
    /\ seg_paths = <<>>
    /\ seg_i = 0
    /\ calls = <<>>
    /\ transcriptions = <<>>
    /\ full_transcription = NoText
    /\ s_pc = "idle"
    /\ RetryIdle
    /\ LedgerIdle
    /\ GroupIdle
    /\ HandlerIdle
    /\ ThreadsIdle
    /\ ProcessIdle
    /\ ScanIdle

\* get_audio_duration raises; transcribe_file logs the error and raises it.
ProbeFails ==
    /\ route = "none"
    /\ route' = "failed"
    /\ tf_result' = Raised(ProbeError)
    /\ UNCHANGED <<use_vad, duration, vad_threshold, s_vars, p_rest>>

\* get_audio_duration returns and the path is chosen.
Probe ==
    /\ route = "none"
    /\ IF TakesSegmentedPath(use_vad, duration, vad_threshold)
       THEN /\ route' = "segmented"
            /\ s_pc' = "split"
       ELSE /\ route' = "direct"
            /\ UNCHANGED s_pc
    /\ UNCHANGED <<use_vad, duration, vad_threshold, tf_result, groups,
                   on_disk, temp_files, seg_paths, seg_i, calls,
                   transcriptions, full_transcription, p_rest>>

\* _transcribe_direct: one call of client.transcribe_audio on the file
\* itself.
TranscribeDirect ==
    /\ route = "direct"
    /\ tf_result = NoResult
    /\ \E o \in DirectOutcomes : tf_result' = o
    /\ UNCHANGED <<use_vad, duration, vad_threshold, route, s_vars, p_rest>>

TranscribeNext ==
    \/ ProbeFails
    \/ Probe
    \/ TranscribeDirect
    \/ SplitWithoutSpeech
    \/ CreateSegmentFile
    \/ CreateSegmentFails
    \/ TranscribeSegment
    \/ SegmentFails
    \/ SegmentCancelled
    \/ JoinTranscriptions

SpecTranscribe == TranscribeInit /\ [][TranscribeNext]_vars

\* transcribe_file has returned or raised.
TranscribeFileLeft ==
    \/ tf_result # NoResult
    \/ route = "segmented" /\ s_pc \in {"returned", "raised"}

\* C33: the path is chosen by the duration alone: a file whose duration is
\* below the threshold takes the direct path and every other file, one
\* whose duration equals the threshold included, the segmented path
\* (stated for calls that leave use_vad at its default, True).
C33_PathByDurationAlone ==
    ( use_vad /\ route \in {"direct", "segmented"} )
        => ( route = "direct" <=> duration < vad_threshold )

\* What does hold: the segmented path is taken exactly when use_vad is set
\* and the duration is above the threshold.
C33_SegmentedAboveThreshold ==
    route \in {"direct", "segmented"}
        => ( route = "segmented" <=> ( use_vad /\ duration > vad_threshold ) )

\* C35: transcription never deletes the original audio file: once
\* transcribe_file has returned or raised, the file still exists, also when
\* no speech was detected and the whole file was the single segment.
C35_OriginalFileKept ==
    TranscribeFileLeft => AudioFile \in on_disk

\* What does hold: the file is still there on the direct path, when the
\* probe fails, and on the segmented path when speech was detected.
C35_KeptUnlessNoSpeech ==
    ( TranscribeFileLeft /\ ~(route = "segmented" /\ groups = 0) )
        => AudioFile \in on_disk

(***************************************************************************)
(* Empty transcriptions; checked under SpecHandler.                        *)
(***************************************************************************)
\* C32: a file is reported successful and recorded Completed only if its
\* transcription text is not empty: a call of process_audio_file(p) that
\* made the transcription request and got an empty text returns False,
\* writes no note and leaves the ledger as it was; a call that returns True
\* after a request, or that writes a Completed entry, had a non-empty text.
C32_EmptyTranscriptionFails ==
    [][ \A p \in Paths :
            ProcessCallOf(p)
            => /\ ( h_last'.remote >= 1 /\ h_last'.result = TRUE )
                     => /\ h_last'.response \in Responses
                        /\ h_last'.response # <<>>
               /\ nops' = nops + 1
                     => ( h_last'.result = TRUE /\ h_last'.response # <<>> )
               /\ h_last'.response = <<>>
                     => /\ h_last'.result = FALSE
                        /\ vault' = vault
                        /\ <<files, order, stats, disk, nops>>'
                             = <<files, order, stats, disk, nops>>
               /\ ( files'[p].status = "completed"
                    /\ files[p].status # "completed" )
                     => h_last'.response # <<>> ]_vars

\* A call got an empty text for a file that exists and is not processed:
\* it returned False and the file has no Completed entry.
C32_Witness ==
    /\ h_runs >= 1
    /\ h_last.response = <<>>
    /\ h_last.remote = 1
    /\ h_last.result = FALSE
    /\ fs[h_last.path] # NoFile
    /\ files[h_last.path].status # "completed"
    /\ TranscriptionNote(h_last.path) \notin vault

(***************************************************************************)
(* scan_existing_files of src/obsidian/watcher.py, with process_audio_file *)
(* as the callback, as main.py sets it up.                                 *)
(***************************************************************************)
\* The lists that enumerate the set S, each element once: the order in
\* which rglob yields the files is not fixed.
Orderings(S) ==
    { q \in [1..Cardinality(S) -> S] :
        \A i, j \in 1..Cardinality(S) : i # j => q[i] # q[j] }

AfterCallback_StopOnFailure(i, n, ok) == IF ok THEN i + 1 ELSE n

\* The index of the for loop after the callback has been called on element
\* i + 1 of n and has returned ok: the body's try/except lets the loop go on
\* to the next element whatever the callback did.
AfterCallback(i, n, ok) == i + 1

ScanInit ==
    /\ files = [p \in Paths |-> NoEntry]
    /\ order = <<>>
    /\ stats = InitialStatistics
    /\ version = SCHEMA_VERSION
    /\ keys = AllKeys
    /\ disk = NoStore
    /\ fs \in [Paths -> Contents \cup {NoFile}]
    /\ op_budget = MaxHandlerRuns
    /\ fault_budget = 0
    /\ nops = 0
    /\ nfail = 0
    /\ last = NoCall
    /\ create_summary \in BOOLEAN
    /\ vault = {}
    /\ h_runs = 0
    /\ h_last = NoRun
    /\ audio_files = <<>>
    /\ scan_i = 0
    /\ attempted = <<>>
    /\ scan_pc = "collect"
    /\ RetryIdle
    /\ GroupIdle
    /\ ServiceIdle
    /\ ThreadsIdle
    /\ ProcessIdle
    /\ TranscribeIdle

\* The rglob loop: audio_files becomes a list of the audio files that exist.
CollectAudioFiles ==
    /\ scan_pc = "collect"
    /\ audio_files' \in Orderings({p \in Paths : fs[p] # NoFile})
    /\ scan_pc' = "loop"
    /\ UNCHANGED <<scan_i, attempted, l_vars, h_vars, c_rest>>

\* One iteration of "for audio_path in audio_files": the callback is called
\* on the next element.
ScanCallback ==
    /\ scan_pc = "loop"
    /\ scan_i < Len(audio_files)
    /\ Process(audio_files[scan_i + 1])
    /\ attempted' = Append(attempted, audio_files[scan_i + 1])
    /\ scan_i' = AfterCallback(scan_i, Len(audio_files), h_last'.result)
    /\ UNCHANGED <<audio_files, scan_pc, c_rest>>

\* The for loop has gone through the list: scan_existing_files returns.
ScanEnds ==
    /\ scan_pc = "loop"
    /\ scan_i >= Len(audio_files)
    /\ scan_pc' = "done"
    /\ UNCHANGED <<audio_files, scan_i, attempted, l_vars, h_vars, c_rest>>

ScanNext ==
    \/ CollectAudioFiles
    \/ ScanCallback
    \/ ScanEnds
    \/ WriteAudioFile
    \/ DeleteAudioFile

\* The scan runs on the main thread and every call of the callback
\* returns: each of its steps is taken when it can be.
SpecScan ==
    /\ ScanInit
    /\ [][ScanNext]_vars
    /\ WF_vars(CollectAudioFiles)
    /\ WF_vars(ScanCallback)
    /\ WF_vars(ScanEnds)

\* process_audio_file has always returned a bool, and the callback has been
\* called on exactly the first scan_i elements of audio_files, in order.
ScanAttemptsInOrder ==
    /\ h_last.result \in BOOLEAN
    /\ h_runs = Len(attempted)
    /\ scan_i <= Len(audio_files)
    /\ attempted = SubSeq(audio_files, 1, scan_i)
    /\ scan_pc = "done"
          => /\ attempted = audio_files
             /\ \A p \in Paths :
                   Cardinality({i \in 1..Len(attempted) : attempted[i] = p})
                     = IF \E i \in 1..Len(audio_files) : audio_files[i] = p
                       THEN 1 ELSE 0

\* C31: one file's failure never stops the run: process_audio_file returns
\* to its caller in every case, and scan_existing_files calls it on every
\* file it found, each exactly once and in order, whatever the calls before
\* returned; the scan gets to the end of its list.
C31_ScanAttemptsEveryFile ==
    /\ []ScanAttemptsInOrder
    /\ <>(scan_pc = "done")

\* A scan of two files has ended; the first file failed and the second was
\* processed after it.
C31_Witness ==
    /\ scan_pc = "done"
    /\ Len(audio_files) = 2
    /\ attempted = audio_files
    /\ files[audio_files[1]].status # "completed"
    /\ h_last.path = audio_files[2]
    /\ h_last.result = TRUE

====
